---------------------------- MODULE Spec2Model ----------------------------
(***************************************************************************)
(* A state-machine model of the Eden inode layer and privileged helper.    *)
(*                                                                         *)
(*   SpecFileData  one FileData object (eden/fs/inodes/FileData.cpp); each *)
(*                 handler runs under inode_->state_.wlock() and is one    *)
(*                 atomic action, with the failing system call drawn as an *)
(*                 input.                                                  *)
(*   SpecLock      the same object with the lock acquisition, the blocking *)
(*                 blob load and the release as separate steps of several  *)
(*                 threads.                                                *)
(*   SpecPriv      the privileged-helper client                            *)
(*                 (eden/fuse/privhelper/PrivHelper.cpp).                  *)
(*   SpecStop      startPrivHelper / stopPrivHelper and the helper process.*)
(*   SpecCheckout  checkout, reset and snapshot reads on one mount         *)
(*                 (eden/fs/service/EdenServiceHandler.cpp,                *)
(*                 eden/fs/config/ClientConfig.cpp).                       *)
(*   SpecQuery     the journal queries of EdenServiceHandler.              *)
(*   SpecJournal   journal records of several threads and subscriptions.   *)
(*   SpecScenario  open for write, write, close of one file inode.         *)
(*   SpecRead      FileData::read and getSHA1 of a path.                   *)
(*   SpecSetAttr   FileData::setAttr with every combination of flags.      *)
(*   SpecOneWay    every FileData call on an inode that starts             *)
(*                 unmaterialized.                                         *)
(*   SpecSnapshot  ClientConfig::setSnapshotID / getSnapshotID.            *)
(*   SpecStore     the callers of ObjectStore::getBlob and the store.      *)
(*   SpecLong      checkOutRevision, scmGetStatus and glob of the service. *)
(*   SpecDirstate  DirstatePersistence::save / load.                       *)
(*   SpecGitTree   the git tree serializer and deserializeGitTree.         *)
(*   SpecIgnore    GitIgnorePattern::match with and without the basename.  *)
(***************************************************************************)
EXTENDS Integers, Sequences, FiniteSets, TLC

VARIABLES
  \* ---- FileData (one file inode and its overlay file) ----
  hash,        \* inode_->state_->hash : BlobHash or NoHash
  file_,       \* FileData::file_ holds an open overlay file
  blob_,       \* FileData::blob_ holds the loaded blob
  sha1Valid_,  \* FileData::sha1Valid_
  overlay,     \* contents of the overlay file on disk, or NoFile
  xattr,       \* the user.sha1 extended attribute of the overlay file
  mode,        \* inode_->state_->mode
  crashed,     \* a CHECK() failed: the process aborted
  blobData,    \* contents of the blob the inode's hash names (immutable)
  last,        \* the last FileData call: its name, inputs and outcome
  \* ---- FileData, lock-step view ----
  lockOwner,   \* the thread holding inode_->state_.wlock(), or NoThread
  fpc,         \* per thread: position inside the FileData call
  fop,         \* per thread: the call being run
  loads,       \* successful ObjectStore::getBlob calls so far
  creates,     \* successful materializations so far
  fcalls,      \* calls started so far
  \* ---- privileged-helper client ----
  gPrivHelper, \* the global PrivHelper exists
  connClosed,  \* conn_.isClosed()
  helper,      \* the helper process: "none", "running", "exited", "signaled"
  helperCode,  \* its exit status or the signal that killed it
  nextXid_,    \* PrivHelper::nextXid_
  mutex_,      \* the thread holding PrivHelper::mutex_, or NoThread
  ppc,         \* per thread: position inside sendAndRecv
  requestXid,  \* per thread: sendAndRecv's requestXid
  numRetries,  \* per thread: sendAndRecv's numRetries
  msgXid,      \* per thread: msg->xid
  sent,        \* the xids given to the requests of this client, in order
  spc,         \* position inside stopPrivHelper
  stopRes,     \* outcome of the last stopPrivHelper
  starts,      \* helpers started so far
  \* ---- one mount: SNAPSHOT file, one tracked file f, journal ----
  snapshotFile,    \* contents of the SNAPSHOT file
  tmpFile,         \* contents of writeFileAtomic's temporary file, or NoFile
  mountLock,       \* the thread holding the mount-wide lock, or NoThread
  cpc,             \* per thread: position inside a mount operation
  cop,             \* per thread: the mount operation being run
  cres,            \* the outcome of the last mount operation that ended
  fEntry,          \* the blob f's inode references, or NoBlob if materialized
  fOverlay,        \* contents of f's overlay file, or NoFile
  journal,         \* the deltas of the journal, oldest first
  mountGeneration, \* EdenMount::getMountGeneration()
  jlock,           \* the thread holding the journal lock, or NoThread
  jpc,             \* per thread: position inside Journal record
  subscribers,     \* the subscribed callbacks
  seen,            \* per callback: the to_sequence of each delta it was given
  jres,            \* the outcome of the last journal query
  step,            \* position in the open / write / close scenario
  \* ---- ObjectStore and the long-running service calls ----
  ocall,           \* per thread: its getBlob call on the object store
  inflight,        \* per hash: the backing-store fetches in flight
  localStore,      \* the hashes the local store holds
  fetches,         \* backing-store fetches started so far
  lop,             \* per thread: its checkout, status or glob call
  token,           \* per thread: its caller asked for cancellation
  \* ---- DirstatePersistence ----
  storageFile,     \* contents of the dirstate's storage file, or NoFile
  saved,           \* the map last given to save, in its iteration order
  dop,             \* the last DirstatePersistence call, its outcome and the
                   \* map it returned, in that map's iteration order
  \* ---- git tree objects ----
  gitEntries,      \* the entries given to the serializer
  gitData,         \* the bytes of the tree object
  damage,          \* what was done to the bytes since they were serialized
  gitRes,          \* the last serializer / deserializeGitTree call
  \* ---- one gitignore pattern ----
  ignPattern,      \* the GitIgnorePattern: its flags_ and its glob
  ignPath,         \* the path it is asked about
  ignRes           \* what match(path) and match(path, basename) returned

fdVars == <<hash, file_, blob_, sha1Valid_, overlay, xattr, mode, crashed,
            blobData, last>>
lkVars == <<lockOwner, fpc, fop, loads, creates, fcalls>>
phVars == <<gPrivHelper, connClosed, helper, helperCode, nextXid_, mutex_,
            ppc, requestXid, numRetries, msgXid, sent, spc, stopRes, starts>>
mtVars == <<snapshotFile, tmpFile, mountLock, cpc, cop, cres, fEntry,
            fOverlay>>
jnVars == <<journal, mountGeneration, jlock, jpc, subscribers, seen, jres,
            step>>
osVars == <<ocall, inflight, localStore, fetches, lop, token>>
dsVars == <<storageFile, saved, dop>>
gtVars == <<gitEntries, gitData, damage, gitRes>>
giVars == <<ignPattern, ignPath, ignRes>>
mdVars == <<dsVars, gtVars, giVars>>
vars == <<fdVars, lkVars, phVars, mtVars, jnVars, osVars, mdVars>>

(***************************************************************************)
(* Bounds of the model.                                                    *)
(***************************************************************************)
MaxLen == 1          \* longest file / blob contents, in bytes
MaxCalls == 2        \* FileData calls started in the lock-step view
MaxXid == 7          \* the largest xid a request is given
MaxStarts == 2       \* privileged helpers started
MaxCheckouts == 1    \* checkouts that record a delta, per mount
MaxDeltas == 3       \* deltas recorded in the journal
MaxFetches == 3      \* backing-store fetches started
MaxSubtrees == 2     \* subtrees a checkout, status or glob descends into
MaxEntries == 2      \* directives in a dirstate
MaxTreeEntries == 2  \* entries of a git tree
MaxComponents == 2   \* components of a path given to a gitignore pattern

(***************************************************************************)
(* Values.                                                                 *)
(***************************************************************************)
NoHash == "none"
BlobHash == "blobhash"
NoFile == <<-1>>             \* no overlay file: a value that is no byte string
NoXattr == <<>>             \* the empty string: no attribute value
NoRet == <<>>               \* a call that returns nothing
Bytes == {0, 1}              \* 0 is also the byte a hole reads as

Contents == UNION {[1..n -> Bytes] : n \in 0..MaxLen}

\* Hash::sha1(bytes): SHA-1 is modelled as collision-free: the digest is a
\* non-empty value determined by, and determining, the hashed bytes.
Sha1(bytes) == <<Len(bytes)>> \o bytes

\* The characters '0'..'9' and 'a'..'f' of a hex digit, and back.
HexChar(n) == IF n < 10 THEN 48 + n ELSE 87 + n
HexValue(c) == IF c < 97 THEN c - 48 ELSE c - 87
HexChars == {HexChar(n) : n \in 0..15}

\* Hash::toString(): the lowercase hex form, two characters per byte; the
\* form written into the xattr and into the SNAPSHOT file.
toString(h) ==
  [i \in 1..(2 * Len(h)) |->
     IF i % 2 = 1 THEN HexChar(h[(i + 1) \div 2] \div 16)
                  ELSE HexChar(h[i \div 2] % 16)]

\* Hash(str): parse the hex form back.
fromString(str) ==
  [i \in 1..(Len(str) \div 2) |->
     16 * HexValue(str[2 * i - 1]) + HexValue(str[2 * i])]

\* Hash::sha1(ByteRange{})
EmptySha1 == Sha1(<<>>)

\* ObjectStore::getSha1ForBlob(hash): the SHA-1 of the blob's contents that
\* the object store recorded.
GetSha1ForBlob == Sha1(blobData)

S_IFREG == 32768
S_IFLNK == 40960
PermMask == 4096     \* 07777 + 1: the permission bits are mode % PermMask

\* mode & S_IFMT: the four file-type bits above the permission bits.
TypeBits(m) == ((m \div PermMask) % 16) * PermMask

\* A file-type test that lets every file inode through.
S_ISREG_Any(m) == TRUE

\* S_ISREG(mode)
S_ISREG(m) == TypeBits(m) = S_IFREG

\* A mode update that takes st_mode whole, file-type bits included.
ApplyMode_Whole(m, stMode) == stMode

\* (mode & S_IFMT) | (07777 & st_mode)
ApplyMode(m, stMode) == TypeBits(m) + (stMode % PermMask)

Min(a, b) == IF a < b THEN a ELSE b
Max(a, b) == IF a > b THEN a ELSE b

\* ftruncate(fd, size): cut, or extend with zero bytes.
Ftruncate(c, size) ==
  [i \in 1..size |-> IF i <= Len(c) THEN c[i] ELSE 0]

\* pwrite(fd, data, off): overwrite at off, zero-filling a hole before it.
Pwrite(c, data, off) ==
  [i \in 1..Max(Len(c), off + Len(data)) |->
     IF i > off /\ i <= off + Len(data) THEN data[i - off]
     ELSE IF i <= Len(c) THEN c[i] ELSE 0]

(***************************************************************************)
(* The FileData state as a record, and a call's outcome.                   *)
(***************************************************************************)
\* warned: the call logged storeSha1's warning (FileData.cpp:445).
Cur == [hash |-> hash, file_ |-> file_, blob_ |-> blob_,
        sha1Valid_ |-> sha1Valid_, overlay |-> overlay, xattr |-> xattr,
        mode |-> mode, crashed |-> crashed, warned |-> FALSE]

Ok(s) == [st |-> s, res |-> "ok", ret |-> NoRet]
Returns(s, v) == [st |-> s, res |-> "ok", ret |-> v]
Throws(s) == [st |-> s, res |-> "throw", ret |-> NoRet]
\* folly::throwSystemErrorExplicit(err)
EINVAL == 22
ThrowsErrno(s, err) == [st |-> s, res |-> "throw", ret |-> <<err>>]
\* A failed CHECK(): the process aborts.
Aborts(s) == [st |-> [s EXCEPT !.crashed = TRUE], res |-> "abort", ret |-> NoRet]

\* The system calls and store calls that can fail; "none": nothing fails.
MaterializeFails == {"none", "getBlob", "writeFileAtomic", "open",
                     "getSha1ForBlob", "ftruncate"}
LoadFails == {"none", "getBlob"}
WriteFails == {"none", "pwrite"}
Sha1Fails == {"none", "pread", "fsync", "fgetxattr", "getSha1ForBlob"}
\* The owner and group fstat reports for the overlay file; nothing in the
\* program changes them.
FileUid == 1000
FileGid == 100
Uids == {FileUid, 0}
Gids == {FileGid, 0}
EACCES == 13

SetAttrFails(toSet) ==
  {"none", "fstat", "fstat2"}
    \cup (IF "SIZE" \in toSet THEN {"ftruncate"} ELSE {})
    \cup (IF "TIME" \in toSet THEN {"futimens"} ELSE {})

\* A storeSha1 that marks the SHA-1 valid although fsetxattr failed.
storeSha1_ValidAnyway(s, sha1, xattrOk) ==
  IF xattrOk
    THEN [s EXCEPT !.xattr = toString(sha1), !.sha1Valid_ = TRUE]
    ELSE [s EXCEPT !.sha1Valid_ = TRUE, !.warned = TRUE]

\* FileData::storeSha1: a failure of fsetxattr is logged and swallowed.
storeSha1(s, sha1, xattrOk) ==
  IF xattrOk
    THEN [s EXCEPT !.xattr = toString(sha1), !.sha1Valid_ = TRUE]
    ELSE [s EXCEPT !.warned = TRUE]

\* FileData::recomputeAndStoreSha1
recomputeAndStoreSha1(s, fail, xattrOk) ==
  IF fail = "pread"
    THEN Throws(s)
    ELSE Returns(storeSha1(s, Sha1(s.overlay), xattrOk), Sha1(s.overlay))

\* A materializeOpen that does not clear sha1Valid_ before it truncates.
materializeOpen_KeepsValid(s, trunc, fail, xattrOk) ==
  IF s.hash # NoHash THEN Aborts(s)
  ELSE IF ~trunc THEN Ok(s)
  ELSE IF fail = "ftruncate" THEN Throws(s)
  ELSE Ok(storeSha1([s EXCEPT !.overlay = <<>>], EmptySha1, xattrOk))

\* materializeForWrite, the inode already materialized (lines 333-343).
materializeOpen(s, trunc, fail, xattrOk) ==
  IF s.hash # NoHash THEN Aborts(s)
  ELSE IF ~trunc THEN Ok(s)
  ELSE IF fail = "ftruncate" THEN Throws([s EXCEPT !.sha1Valid_ = FALSE])
  ELSE Ok(storeSha1([s EXCEPT !.sha1Valid_ = FALSE, !.overlay = <<>>],
                    EmptySha1, xattrOk))

\* A materializeTrunc that stores the blob's SHA-1 as the other branch does.
materializeTrunc_BlobSha1(s, fail, xattrOk) ==
  IF fail = "open" THEN Throws(s)
  ELSE LET opened == [s EXCEPT !.file_ = TRUE, !.overlay = <<>>,
                               !.xattr = IF s.overlay = NoFile
                                           THEN NoXattr ELSE s.xattr]
       IN Ok([storeSha1(opened, GetSha1ForBlob, xattrOk)
                EXCEPT !.blob_ = FALSE, !.hash = NoHash])

\* materializeForWrite with O_TRUNC, the inode unmaterialized (lines 350-352).
\* open(O_CREAT | O_TRUNC) keeps the xattrs of a file that already exists.
materializeTrunc(s, fail, xattrOk) ==
  IF fail = "open" THEN Throws(s)
  ELSE LET opened == [s EXCEPT !.file_ = TRUE, !.overlay = <<>>,
                               !.xattr = IF s.overlay = NoFile
                                           THEN NoXattr ELSE s.xattr]
       IN Ok([storeSha1(opened, EmptySha1, xattrOk)
                EXCEPT !.blob_ = FALSE, !.hash = NoHash])

\* The part of materializeForWrite after the overlay file was opened
\* (lines 367-377): look up the blob's SHA-1, store it, drop blob and hash.
materializeFinish(s, fail, xattrOk) ==
  IF fail = "getSha1ForBlob" THEN Throws(s)
  ELSE Ok([storeSha1(s, GetSha1ForBlob, xattrOk)
             EXCEPT !.blob_ = FALSE, !.hash = NoHash])

\* materializeForWrite without O_TRUNC, the inode unmaterialized
\* (lines 354-367).  writeFileAtomic renames a new file into place, which
\* carries no xattr.
materializeCopy(s, fail, xattrOk) ==
  IF ~s.blob_ /\ fail = "getBlob" THEN Throws(s)
  ELSE LET loaded == [s EXCEPT !.blob_ = TRUE] IN
    IF fail = "writeFileAtomic" THEN Throws(loaded)
    ELSE LET written == [loaded EXCEPT !.overlay = blobData,
                                       !.xattr = NoXattr] IN
      IF fail = "open" THEN Throws(written)
      ELSE materializeFinish([written EXCEPT !.file_ = TRUE], fail, xattrOk)

\* FileData::materializeForWrite(openFlags); trunc: O_TRUNC is set.
materializeForWrite(s, trunc, fail, xattrOk) ==
  IF s.file_ THEN materializeOpen(s, trunc, fail, xattrOk)
  ELSE IF s.hash = NoHash THEN Aborts(s)
  ELSE IF trunc THEN materializeTrunc(s, fail, xattrOk)
  ELSE materializeCopy(s, fail, xattrOk)

\* FileData::ensureDataLoaded
ensureDataLoaded(s, fail) ==
  IF s.hash = NoHash THEN (IF s.file_ THEN Ok(s) ELSE Aborts(s))
  ELSE IF s.blob_ THEN Ok(s)
  ELSE IF fail = "getBlob" THEN Throws(s)
  ELSE Ok([s EXCEPT !.blob_ = TRUE])

\* A write that leaves the cached SHA-1 alone.
writeInvalidate_Keep(s) == s

\* What write does to sha1Valid_ before it writes (lines 279, 293).
writeInvalidate(s) == [s EXCEPT !.sha1Valid_ = FALSE]

\* A write that does not test file_: it writes through whatever descriptor
\* the object holds.
write_NoCheck(s, data, off, fail) ==
  IF fail = "pwrite" THEN Throws(writeInvalidate(s))
  ELSE Ok([writeInvalidate(s) EXCEPT
             !.overlay = Pwrite(IF s.overlay = NoFile THEN <<>> ELSE s.overlay,
                                data, off)])

\* FileData::write(data, off).  data: the bytes pwrite transfers (a short
\* write is the write of a prefix); the count returned is not recorded.
write(s, data, off, fail) ==
  IF ~s.file_ THEN ThrowsErrno(s, EINVAL)
  ELSE IF fail = "pwrite" THEN Throws(writeInvalidate(s))
  ELSE Ok([writeInvalidate(s) EXCEPT
             !.overlay = Pwrite(s.overlay, data, off)])

\* What a size change does in setAttr (lines 87-89).
setAttrSize(s, size) == [s EXCEPT !.overlay = Ftruncate(s.overlay, size)]

\* An ownership test that looks at the uid only.
OwnerChange_UidOnly(attr, toSet) ==
  "UID" \in toSet /\ attr.st_uid # FileUid

\* The test of lines 92-93: a requested id differs from the file's.
OwnerChange(attr, toSet) ==
  \/ "UID" \in toSet /\ attr.st_uid # FileUid
  \/ "GID" \in toSet /\ attr.st_gid # FileGid

\* FileData::setAttr(attr, to_set).  attr: [size, st_uid, st_gid, st_mode];
\* toSet: the FUSE_SET_ATTR_* flags given, TIME standing for the four time
\* flags.  Of the stat returned, its st_mode is kept.
setAttr(s, attr, toSet, fail) ==
  IF ~s.file_ THEN Aborts(s)
  ELSE IF fail = "fstat" THEN Throws(s)
  ELSE IF "SIZE" \in toSet /\ fail = "ftruncate" THEN Throws(s)
  ELSE LET sized == IF "SIZE" \in toSet THEN setAttrSize(s, attr.size) ELSE s IN
    IF {"UID", "GID"} \cap toSet # {} /\ OwnerChange(attr, toSet)
      THEN ThrowsErrno(sized, EACCES)
    ELSE LET moded == IF "MODE" \in toSet
                        THEN [sized EXCEPT !.mode = ApplyMode(s.mode, attr.st_mode)]
                        ELSE sized IN
      IF "TIME" \in toSet /\ fail = "futimens" THEN Throws(moded)
      ELSE IF fail = "fstat2" THEN Throws(moded)
      ELSE Returns(moded, <<moded.mode>>)

\* Cursor::cloneAtMost giving all that is left, whatever size was asked.
cloneAtMost_All(bytes, size) == bytes

\* Cursor::cloneAtMost(result, size): at most size of the bytes left.
cloneAtMost(bytes, size) == SubSeq(bytes, 1, Min(size, Len(bytes)))

\* Cursor::canAdvance(off): off bytes are there to skip.
canAdvance(bytes, off) == off <= Len(bytes)

\* pread(fd, buf, size, off): the bytes from off on, at most size of them;
\* none at or past the end of the file.
Pread(c, size, off) ==
  [i \in 1..Min(size, Max(Len(c) - off, 0)) |-> c[off + i]]

ReadFails == {"none", "pread"}

\* blob_->getContents() through a null blob_ is undefined: the process
\* crashes, or the call returns some bytes.
NullBlobReads == [crash : BOOLEAN, bytes : Contents]
NoNullBlob == [crash |-> FALSE, bytes |-> <<>>]

\* A readIntoBuffer that reads the source control blob's bytes even when
\* the overlay file is open.
readIntoBuffer_FromBlob(s, size, off, fail, undef) ==
  IF s.file_
    THEN IF fail = "pread" THEN Throws(s)
         ELSE Returns(s, Pread(blobData, size, off))
  ELSE IF ~s.blob_
    THEN IF undef.crash THEN Aborts(s) ELSE Returns(s, undef.bytes)
  ELSE IF ~canAdvance(blobData, off) THEN Returns(s, <<>>)
  ELSE Returns(s, cloneAtMost(SubSeq(blobData, off + 1, Len(blobData)), size))

\* FileData::readIntoBuffer(size, off), which FileData::read wraps.
readIntoBuffer(s, size, off, fail, undef) ==
  IF s.file_
    THEN IF fail = "pread" THEN Throws(s)
         ELSE Returns(s, Pread(s.overlay, size, off))
  ELSE IF ~s.blob_
    THEN IF undef.crash THEN Aborts(s) ELSE Returns(s, undef.bytes)
  ELSE IF ~canAdvance(blobData, off) THEN Returns(s, <<>>)
  ELSE Returns(s, cloneAtMost(SubSeq(blobData, off + 1, Len(blobData)), size))

\* A flush that does what a file without write buffers needs: nothing.
flush_Nothing(s, fail, xattrOk) == Ok(s)

\* FileData::flush
flush(s, fail, xattrOk) ==
  IF s.file_ /\ ~s.sha1Valid_
    THEN LET r == recomputeAndStoreSha1(s, fail, xattrOk)
         IN [r EXCEPT !.ret = NoRet]
    ELSE Ok(s)

\* FileData::fsync
fsync(s, fail, xattrOk) ==
  IF ~s.file_ THEN Ok(s)
  ELSE IF fail = "fsync" THEN Throws(s)
  ELSE IF ~s.sha1Valid_
    THEN LET r == recomputeAndStoreSha1(s, fail, xattrOk)
         IN [r EXCEPT !.ret = NoRet]
    ELSE Ok(s)

\* A getSha1 that returns whatever xattr the overlay file carries.
getSha1_TrustsXattr(s, fail, xattrOk) ==
  IF s.file_
    THEN IF s.xattr = NoXattr
           THEN recomputeAndStoreSha1(s, fail, xattrOk)
           ELSE Returns(s, fromString(s.xattr))
    ELSE IF s.hash = NoHash THEN Aborts(s)
    ELSE IF fail = "getSha1ForBlob" THEN Throws(s)
    ELSE Returns(s, GetSha1ForBlob)

\* FileData::getSha1
getSha1(s, fail, xattrOk) ==
  IF s.file_
    THEN IF s.sha1Valid_ /\ fail = "fgetxattr" THEN Throws(s)
         ELSE LET shastr == IF s.sha1Valid_ THEN s.xattr ELSE NoXattr IN
           IF shastr = NoXattr
             THEN recomputeAndStoreSha1(s, fail, xattrOk)
             ELSE Returns(s, fromString(shastr))
    ELSE IF s.hash = NoHash THEN Aborts(s)
    ELSE IF fail = "getSha1ForBlob" THEN Throws(s)
    ELSE Returns(s, GetSha1ForBlob)

\* EdenServiceHandler::getSHA1ForPath for a path that is empty or names the
\* file inode; an error result is a throw.  fileInode->getSHA1() is
\* FileData::getSha1.
getSHA1ForPath(s, path, fail, xattrOk) ==
  IF path = <<>> THEN ThrowsErrno(s, EINVAL)
  ELSE IF ~S_ISREG(s.mode) THEN ThrowsErrno(s, EINVAL)
  ELSE getSha1(s, fail, xattrOk)

(***************************************************************************)
(* SpecFileData: every handler as one atomic action.                       *)
(***************************************************************************)
\* The modes an inode starts with: a regular file 0100644, a symlink 0120755.
Modes == {S_IFREG + 420, S_IFLNK + 493}
\* The st_mode a caller passes: 040755 (other type bits), 0104600 (setuid).
AttrModes == {16384 + 493, S_IFREG + 2048 + 384}
ToSets == SUBSET {"SIZE", "UID", "GID", "MODE", "TIME"}
\* The calls that change at most one kind of attribute.
OneFlag == {toSet \in ToSets : Cardinality(toSet) <= 1}

\* The blobs of the store, and the data a write carries.
Blobs == {[i \in 1..n |-> i % 2] : n \in 0..MaxLen}

\* The attr arguments that to_set makes setAttr read; a field it does not
\* read is left at one value, for the ids one that differs from the file's.
Attrs(toSet) ==
  [size : IF "SIZE" \in toSet THEN 0..MaxLen ELSE {0},
   st_uid : IF "UID" \in toSet THEN Uids ELSE {0},
   st_gid : IF "GID" \in toSet THEN Gids ELSE {0},
   st_mode : IF "MODE" \in toSet THEN AttrModes ELSE {0}]

\* The record kept of a call; arg: the arguments kept of it.
Called(op, trunc, r) ==
  [op |-> op, trunc |-> trunc, res |-> r.res, ret |-> r.ret,
   wasMat |-> file_, warned |-> r.st.warned, arg |-> <<>>]

\* The FileData state becomes s.
Becomes(s) ==
  /\ hash' = s.hash
  /\ file_' = s.file_
  /\ blob_' = s.blob_
  /\ sha1Valid_' = s.sha1Valid_
  /\ overlay' = s.overlay
  /\ xattr' = s.xattr
  /\ mode' = s.mode
  /\ crashed' = s.crashed
  /\ UNCHANGED blobData

ApplyWith(op, trunc, r, arg) ==
  /\ Becomes(r.st)
  /\ last' = [Called(op, trunc, r) EXCEPT !.arg = arg]
  /\ UNCHANGED <<lkVars, phVars, osVars, mtVars, jnVars, mdVars>>

Apply(op, trunc, r) == ApplyWith(op, trunc, r, <<>>)

\* FileData::FileData: an unmaterialized inode has its hash and no file; a
\* materialized one has no hash and its overlay file open.  sha1Valid_
\* starts false; the xattr of an existing overlay file is whatever an
\* earlier run left there.
InitFileData ==
  /\ blobData \in Blobs
  /\ mode \in Modes
  /\ crashed = FALSE
  /\ blob_ = FALSE
  /\ sha1Valid_ = FALSE
  /\ last = [op |-> "FileData", trunc |-> FALSE, res |-> "ok", ret |-> NoRet,
             wasMat |-> FALSE, warned |-> FALSE, arg |-> <<>>]
  /\ \/ /\ hash = BlobHash
        /\ file_ = FALSE
        /\ overlay = NoFile
        /\ xattr = NoXattr
     \/ /\ hash = NoHash
        /\ file_ = TRUE
        /\ overlay \in Contents
        /\ xattr \in {NoXattr, toString(Sha1(overlay)), toString(EmptySha1)}

Threads == {"t1", "t2"}
NoThread == "nothread"

\* No getBlob and no long-running call has started; the local store is
\* empty.
Hashes == {"h1", "h2"}
NoFetch == [fetch |-> 0, ok |-> FALSE]
NoCall == [at |-> "idle", hash |-> "none", got |-> NoFetch]
NoLongOp == [kind |-> "none", at |-> "idle", left |-> 0, held |-> 0,
             res |-> "none"]

InitStoreIdle ==
  /\ ocall = [t \in Threads |-> NoCall]
  /\ inflight = [h \in Hashes |-> {}]
  /\ localStore = {}
  /\ fetches = 0
  /\ lop = [t \in Threads |-> NoLongOp]
  /\ token = [t \in Threads |-> FALSE]

\* No dirstate was saved or loaded: there is no storage file.
NoDirstateCall == [op |-> "none", res |-> "none", ret |-> <<>>,
                   prev |-> NoFile]

InitDirstateIdle ==
  /\ storageFile = NoFile
  /\ saved = <<>>
  /\ dop = NoDirstateCall

\* No tree object was serialized or deserialized.
InitGitTreeIdle ==
  /\ gitEntries = <<>>
  /\ gitData = <<>>
  /\ damage = "none"
  /\ gitRes = [op |-> "none", res |-> "none", entries |-> <<>>]

\* No pattern was asked about a path.
NoMatchCall == "notcalled"

InitIgnoreIdle ==
  /\ ignPattern = [flags |-> {}, glob |-> <<>>]
  /\ ignPath = <<>>
  /\ ignRes = [one |-> NoMatchCall, two |-> NoMatchCall]

InitModelIdle ==
  /\ InitDirstateIdle
  /\ InitGitTreeIdle
  /\ InitIgnoreIdle

\* No FileData call is running and no call on the store.
InitThreadsIdle ==
  /\ InitStoreIdle
  /\ lockOwner = NoThread
  /\ fpc = [t \in Threads |-> "idle"]
  /\ fop = [t \in Threads |-> [op |-> "none", trunc |-> FALSE]]
  /\ loads = 0
  /\ creates = 0
  /\ fcalls = 0

\* No FileData call is running (and, with it, no call on the store).
InitLockIdle ==
  /\ InitModelIdle
  /\ InitStoreIdle
  /\ lockOwner = NoThread
  /\ fpc = [t \in Threads |-> "idle"]
  /\ fop = [t \in Threads |-> [op |-> "none", trunc |-> FALSE]]
  /\ loads = 0
  /\ creates = 0
  /\ fcalls = 0

\* No privileged helper was started.
InitPrivIdle ==
  /\ gPrivHelper = FALSE
  /\ connClosed = TRUE
  /\ helper = "none"
  /\ helperCode = 0
  /\ nextXid_ = 1
  /\ mutex_ = NoThread
  /\ ppc = [t \in Threads |-> "idle"]
  /\ requestXid = [t \in Threads |-> 0]
  /\ numRetries = [t \in Threads |-> 0]
  /\ msgXid = [t \in Threads |-> 0]
  /\ sent = <<>>
  /\ spc = "idle"
  /\ stopRes = [res |-> "none", val |-> 0, wasRunning |-> FALSE, stopped |-> 0]
  /\ starts = 0

(***************************************************************************)
(* One mount: the SNAPSHOT file, one tracked file f and the journal.       *)
(***************************************************************************)
\* The commits of the repository, by hash; f's entry in the tree of each:
\* commits 1 and 3 give f the same blob, commit 2 another.
Commits == {1, 2, 3}
CommitBlob(c) == IF c = 2 THEN 2 ELSE 1
NoBlob == 0
BlobContents(b) == <<b>>
\* What a user may write into f; <<1>> is also the contents of blob 1.
LocalContents == {<<0>>, <<1>>}
PathF == "f"

\* The contents a reader of f sees.
FContents(entry, ovl) == IF ovl # NoFile THEN ovl ELSE BlobContents(entry)

\* id.toString() + "\n"
Newline == 10
SnapshotText(c) == toString(<<c>>) \o <<Newline>>

\* folly::trimWhitespace: drops ' ', '\n', '\t' and '\r' at both ends.
Whitespace == {32, Newline, 9, 13}
RECURSIVE trimWhitespace(_)
trimWhitespace(str) ==
  IF str = <<>> THEN str
  ELSE IF Head(str) \in Whitespace THEN trimWhitespace(Tail(str))
  ELSE IF str[Len(str)] \in Whitespace
    THEN trimWhitespace(SubSeq(str, 1, Len(str) - 1))
  ELSE str

\* Hash{str}: the hash a string of the right length and of hex digits
\* only names, or NoCommit (the constructor throws).
NoCommit == 0
HashOf(str) ==
  IF /\ Len(str) = 2 * Len(<<NoCommit>>)
     /\ \A i \in 1..Len(str) : str[i] \in HexChars
    THEN fromString(str)[1] ELSE NoCommit

\* A getSnapshotID that parses the contents of the file as they are.
getSnapshotID_Untrimmed(text) == HashOf(text)

\* ClientConfig::getSnapshotID: the commit the SNAPSHOT file names.
getSnapshotID(text) == HashOf(trimWhitespace(text))

\* What the snapshot path holds while folly::writeFileAtomic has written
\* the new text to its temporary file and not yet renamed it.
SnapshotWhileWriting_InPlace(text) == <<>>
SnapshotWhileWriting(text) == text

\* The mount-wide lock can be taken.
MountLockFree_NoLock == TRUE
MountLockFree == mountLock = NoThread

NoOp == [kind |-> "none", target |-> NoCommit, force |-> FALSE,
         from |-> NoCommit, preEntry |-> NoBlob, preOverlay |-> NoFile,
         preDeltas |-> 0, conflicts |-> {}, touched |-> {}]
NoRes == [res |-> "none", conflicts |-> {}, snapshot |-> NoCommit,
          concurrent |-> FALSE]

InitMountIdle ==
  /\ snapshotFile = SnapshotText(1)
  /\ tmpFile = NoFile
  /\ mountLock = NoThread
  /\ cpc = [t \in Threads |-> "idle"]
  /\ cop = [t \in Threads |-> NoOp]
  /\ cres = NoRes
  /\ fEntry = CommitBlob(1)
  /\ fOverlay = NoFile

\* The callbacks that can subscribe to the journal.
Callbacks == {"s1", "s2"}

\* The scenario has not started; later: where it is, and what was written.
NoStep == [at |-> "start", data |-> <<>>, off |-> 0]

\* What a callback was given: the deltas got, since the latest to_sequence
\* at its subscription.
NotSubscribed == [since |-> 0, got |-> <<>>]

\* The outcome of a journal query: of getFilesChangedSince(cursor) or of
\* getCurrentJournalPosition, asked when the journal held len deltas.
NoAnswer == [op |-> "none", res |-> "none", error |-> 0, len |-> 0,
             cursor |-> [mountGeneration |-> 0, sequenceNumber |-> 0],
             paths |-> {},
             fromSeq |-> 0, fromHash |-> NoCommit, fromGen |-> 0,
             toSeq |-> 0, toHash |-> NoCommit, toGen |-> 0]

InitJournalIdle ==
  /\ journal = <<>>
  /\ mountGeneration = 1
  /\ jlock = NoThread
  /\ jpc = [t \in Threads |-> [at |-> "idle", seq |-> 0]]
  /\ subscribers = {}
  /\ seen = [c \in Callbacks |-> NotSubscribed]
  /\ jres = NoAnswer
  /\ step = NoStep

Init ==
  InitFileData /\ InitLockIdle /\ InitPrivIdle /\ InitMountIdle /\ InitJournalIdle

MaterializeForWrite ==
  /\ ~crashed
  /\ \E trunc \in BOOLEAN, fail \in MaterializeFails, xattrOk \in BOOLEAN :
       Apply("materializeForWrite", trunc,
             materializeForWrite(Cur, trunc, fail, xattrOk))

EnsureDataLoaded ==
  /\ ~crashed
  /\ \E fail \in LoadFails :
       Apply("ensureDataLoaded", FALSE, ensureDataLoaded(Cur, fail))

Write ==
  /\ ~crashed
  /\ \E data \in Contents, off \in 0..MaxLen, fail \in WriteFails :
       /\ off + Len(data) <= MaxLen
       /\ Apply("write", FALSE, write(Cur, data, off, fail))

\* The callers of setAttr materialize the inode first.
SetAttrOf(toSets) ==
  /\ ~crashed
  /\ file_
  /\ \E toSet \in toSets :
     \E attr \in Attrs(toSet), fail \in SetAttrFails(toSet) :
       Apply("setAttr", FALSE, setAttr(Cur, attr, toSet, fail))

\* setAttr changing one kind of attribute, and any combination of them.
SetAttr == SetAttrOf(OneFlag)
SetAttrFlags == SetAttrOf(ToSets)

Flush ==
  /\ ~crashed
  /\ \E fail \in Sha1Fails, xattrOk \in BOOLEAN :
       Apply("flush", FALSE, flush(Cur, fail, xattrOk))

Fsync ==
  /\ ~crashed
  /\ \E fail \in Sha1Fails, xattrOk \in BOOLEAN :
       Apply("fsync", FALSE, fsync(Cur, fail, xattrOk))

GetSha1 ==
  /\ ~crashed
  /\ \E fail \in Sha1Fails, xattrOk \in BOOLEAN :
       Apply("getSha1", FALSE, getSha1(Cur, fail, xattrOk))

\* FileData::read, at and past the end of the data too.
ReadOf(sizes, offs) ==
  /\ ~crashed
  /\ \E size \in sizes, off \in offs, fail \in ReadFails :
     \E undef \in (IF file_ \/ blob_ THEN {NoNullBlob} ELSE NullBlobReads) :
       ApplyWith("read", FALSE, readIntoBuffer(Cur, size, off, fail, undef),
                 <<size, off>>)

\* Reads of every size at every offset, and reads of the whole file.
Read == ReadOf(0..(MaxLen + 1), 0..(MaxLen + 1))
ReadAll == ReadOf({MaxLen + 1}, {0})

\* The paths asked of getSHA1: the empty string, and "f" naming the inode.
Sha1Paths == {<<>>, <<102>>}

GetSHA1ForPath ==
  /\ ~crashed
  /\ \E path \in Sha1Paths, fail \in Sha1Fails, xattrOk \in BOOLEAN :
       ApplyWith("getSHA1ForPath", FALSE,
                 getSHA1ForPath(Cur, path, fail, xattrOk), path)

NextFileData ==
  \/ MaterializeForWrite
  \/ EnsureDataLoaded
  \/ Write
  \/ SetAttr
  \/ Flush
  \/ Fsync
  \/ GetSha1

SpecFileData == Init /\ [][NextFileData]_vars

(***************************************************************************)
(* SpecRead: the reading calls, FileData::read and the service's getSHA1   *)
(* of one path, on inodes that are loaded, materialized and written.       *)
(***************************************************************************)
InitRead == Init

NextRead ==
  \/ MaterializeForWrite
  \/ EnsureDataLoaded
  \/ Write
  \/ Read
  \/ GetSHA1ForPath

SpecRead == InitRead /\ [][NextRead]_vars

(***************************************************************************)
(* SpecSetAttr: setAttr with every combination of flags, on the overlay    *)
(* files materializeForWrite leaves.                                       *)
(***************************************************************************)
InitSetAttr == Init

NextSetAttr ==
  \/ MaterializeForWrite
  \/ SetAttrFlags

SpecSetAttr == InitSetAttr /\ [][NextSetAttr]_vars

(***************************************************************************)
(* SpecLock: ensureDataLoaded and materializeForWrite of several threads,  *)
(* with taking inode_->state_.wlock(), the blocking ObjectStore::getBlob   *)
(* and the rest of the call as separate steps.                             *)
(***************************************************************************)

\* inode_->state_.wlock() can be taken: no thread holds it.
WLockFree_NoLock == TRUE
WLockFree == lockOwner = NoThread

\* A thread enters ensureDataLoaded or materializeForWrite.
FCall(t) ==
  /\ ~crashed
  /\ fpc[t] = "idle"
  /\ fcalls < MaxCalls
  /\ \E op \in {"ensureDataLoaded", "materializeForWrite"}, trunc \in BOOLEAN :
       /\ op = "ensureDataLoaded" => ~trunc
       /\ fop' = [fop EXCEPT ![t] = [op |-> op, trunc |-> trunc]]
  /\ fpc' = [fpc EXCEPT ![t] = "wlock"]
  /\ fcalls' = fcalls + 1
  /\ UNCHANGED <<fdVars, lockOwner, loads, creates, phVars, osVars, mtVars, jnVars, mdVars>>

\* auto state = inode_->state_.wlock();
FLock(t) ==
  /\ fpc[t] = "wlock"
  /\ WLockFree
  /\ lockOwner' = t
  /\ fpc' = [fpc EXCEPT ![t] = "locked"]
  /\ UNCHANGED <<fdVars, fop, loads, creates, fcalls, phVars, osVars, mtVars, jnVars, mdVars>>

\* The call ends (returns, throws or aborts) and the lock is released.
FCallEnds(t, r, created) ==
  /\ Becomes(r.st)
  /\ last' = Called(fop[t].op, fop[t].trunc, r)
  /\ lockOwner' = NoThread
  /\ fpc' = [fpc EXCEPT ![t] = "idle"]
  /\ creates' = IF created /\ r.res = "ok" THEN creates + 1 ELSE creates
  /\ UNCHANGED <<fop, fcalls, phVars, osVars, mtVars, jnVars, mdVars>>

\* The call needs the blob and does not hold it: it goes on to getBlob.
NeedsLoad(t) ==
  /\ hash # NoHash
  /\ ~blob_
  /\ ~file_
  /\ fop[t].op = "materializeForWrite" => ~fop[t].trunc

\* The code between taking the lock and the first blocking call: the call
\* ends at once when the inode is materialized, the blob is loaded
\* (ensureDataLoaded) or O_TRUNC is set; otherwise it goes on to load the
\* blob, or to copy a blob that is loaded.
FEnter(t) ==
  /\ fpc[t] = "locked"
  /\ IF NeedsLoad(t)
       THEN /\ fpc' = [fpc EXCEPT ![t] = "loading"]
            /\ UNCHANGED <<fdVars, lockOwner, fop, loads, creates, fcalls,
                           phVars, osVars, mtVars, jnVars, mdVars>>
     ELSE IF fop[t].op = "ensureDataLoaded"
       THEN /\ FCallEnds(t, ensureDataLoaded(Cur, "none"), FALSE)
            /\ UNCHANGED loads
     ELSE IF file_ \/ hash = NoHash \/ fop[t].trunc
       THEN /\ \E fail \in MaterializeFails, xattrOk \in BOOLEAN :
                 FCallEnds(t, materializeForWrite(Cur, fop[t].trunc, fail, xattrOk),
                           ~file_)
            /\ UNCHANGED loads
     ELSE /\ fpc' = [fpc EXCEPT ![t] = "copying"]
          /\ UNCHANGED <<fdVars, lockOwner, fop, loads, creates, fcalls,
                         phVars, osVars, mtVars, jnVars, mdVars>>

\* blob_ = getObjectStore()->getBlob(hash) returns or throws, the lock held.
FLoad(t) ==
  /\ fpc[t] = "loading"
  /\ \E fail \in LoadFails :
       IF fail = "getBlob"
         THEN /\ FCallEnds(t, Throws(Cur), FALSE)
              /\ UNCHANGED loads
       ELSE IF fop[t].op = "ensureDataLoaded"
         THEN /\ FCallEnds(t, ensureDataLoaded(Cur, "none"), FALSE)
              /\ loads' = loads + 1
       ELSE /\ blob_' = TRUE
            /\ loads' = loads + 1
            /\ fpc' = [fpc EXCEPT ![t] = "copying"]
            /\ UNCHANGED <<hash, file_, sha1Valid_, overlay, xattr, mode,
                           crashed, blobData, last, lockOwner, fop, creates,
                           fcalls, phVars, osVars, mtVars, jnVars, mdVars>>

\* The rest of materializeForWrite, the blob loaded: write the overlay file,
\* open it, store the SHA-1, drop blob and hash.
FCopy(t) ==
  /\ fpc[t] = "copying"
  /\ \E fail \in MaterializeFails \ {"getBlob"}, xattrOk \in BOOLEAN :
       FCallEnds(t, materializeCopy(Cur, fail, xattrOk), TRUE)
  /\ UNCHANGED loads

NextLock ==
  \E t \in Threads :
    \/ FCall(t)
    \/ FLock(t)
    \/ FEnter(t)
    \/ FLoad(t)
    \/ FCopy(t)

SpecLock == Init /\ [][NextLock]_vars

(***************************************************************************)
(* The privileged-helper client.                                           *)
(*   SpecPriv  sendAndRecv of several threads (through                     *)
(*             privilegedFuseMount, privilegedFuseUnmount and              *)
(*             privilegedBindMount) on a started helper.  What recvMsg     *)
(*             delivers is an input: the reply to this request, a late     *)
(*             reply to an earlier one, or any other xid.                  *)
(*   SpecStop  startPrivHelper, stopPrivHelper and the helper process.     *)
(***************************************************************************)

\* A uint32_t as its two 16-bit halves, so that a difference that wraps
\* below zero is computed and compared as the machine does.
HalfWord == 65536
U32(v) == [hi |-> v \div HalfWord, lo |-> v % HalfWord]

\* a - b in uint32_t arithmetic.
SubU32(a, b) ==
  LET borrow == IF a.lo < b.lo THEN 1 ELSE 0
      h == a.hi - b.hi - borrow
  IN [hi |-> IF h < 0 THEN h + HalfWord ELSE h,
      lo |-> IF a.lo < b.lo THEN a.lo + HalfWord - b.lo ELSE a.lo - b.lo]

\* a >= b of two uint32_t.
GeqU32(a, b) == a.hi > b.hi \/ (a.hi = b.hi /\ a.lo >= b.lo)

StaleWindow == 5
MaxStaleRetries == 5

\* msg->xid < requestXid && msg->xid >= requestXid - 5 && numRetries < 5
IsStaleReply_NoRetryLimit(x, r, n) ==
  /\ x < r
  /\ GeqU32(U32(x), SubU32(U32(r), U32(StaleWindow)))
IsStaleReply(x, r, n) ==
  /\ x < r
  /\ GeqU32(U32(x), SubU32(U32(r), U32(StaleWindow)))
  /\ n < MaxStaleRetries

\* The xids a received message can carry.
ReplyXids == 1..(MaxXid + 1)

\* nextXid_ after ++nextXid_ (far below the wrap of a uint32_t here).
IncrementXid_Forgotten(x) == x
IncrementXid(x) == x + 1

\* std::lock_guard<std::mutex> guard(mutex_) can be taken.
MutexFree_NoMutex == TRUE
MutexFree == mutex_ = NoThread

\* The threads inside sendAndRecv's critical section.
InSendAndRecv == {t \in Threads : ppc[t] \in {"send", "recv"}}
\* The threads that have called sendAndRecv and not left it.
Calling == {t \in Threads : ppc[t] \in {"lock", "send", "recv"}}

\* cleanup()'s result for a helper that ended: WEXITSTATUS(status), or
\* -WTERMSIG(status) for one killed by a signal.
CleanupValue_SignalNotNegated(how, code) == code
CleanupValue(how, code) == IF how = "signaled" THEN 0 - code ELSE code

\* startPrivHelper: CHECK(!gPrivHelper), fork, gPrivHelper.reset(new ...).
\* A failing fork throws and changes nothing.
StartPrivHelper ==
  /\ ~gPrivHelper
  /\ spc = "idle"
  /\ starts < MaxStarts
  /\ gPrivHelper' = TRUE
  /\ connClosed' = FALSE
  /\ helper' = "running"
  /\ helperCode' = 0
  /\ nextXid_' = 1
  /\ mutex_' = NoThread
  /\ sent' = <<>>
  /\ starts' = starts + 1
  /\ UNCHANGED <<fdVars, lkVars, mtVars, jnVars, osVars,
                 ppc, requestXid, numRetries, msgXid, spc,
                 stopRes, mdVars>>

\* A thread calls gPrivHelper->sendAndRecv, with a fresh message and fresh
\* locals; the helper exists and is not being stopped.
PCall(t) ==
  /\ gPrivHelper
  /\ spc = "idle"
  /\ ppc[t] \notin {"lock", "send", "recv"}
  /\ nextXid_ <= MaxXid
  /\ ppc' = [ppc EXCEPT ![t] = "lock"]
  /\ requestXid' = [requestXid EXCEPT ![t] = 0]
  /\ numRetries' = [numRetries EXCEPT ![t] = 0]
  /\ msgXid' = [msgXid EXCEPT ![t] = 0]
  /\ UNCHANGED <<fdVars, lkVars, mtVars, jnVars, osVars,
                 gPrivHelper, connClosed, helper, helperCode,
                 nextXid_, mutex_, sent, spc, stopRes, starts, mdVars>>

\* lock_guard guard(mutex_); requestXid = nextXid_; ++nextXid_;
\* msg->xid = requestXid;
PLock(t) ==
  /\ ppc[t] = "lock"
  /\ MutexFree
  /\ mutex_' = t
  /\ requestXid' = [requestXid EXCEPT ![t] = nextXid_]
  /\ msgXid' = [msgXid EXCEPT ![t] = nextXid_]
  /\ numRetries' = [numRetries EXCEPT ![t] = 0]
  /\ nextXid_' = IncrementXid(nextXid_)
  /\ sent' = Append(sent, nextXid_)
  /\ ppc' = [ppc EXCEPT ![t] = "send"]
  /\ UNCHANGED <<fdVars, lkVars, mtVars, jnVars, osVars,
                 gPrivHelper, connClosed, helper, helperCode,
                 spc, stopRes, starts, mdVars>>

\* The call leaves sendAndRecv at position pos, releasing the mutex.
PLeaves(t, pos) ==
  /\ ppc' = [ppc EXCEPT ![t] = pos]
  /\ mutex_' = NoThread

\* conn_.sendMsg(msg) succeeds or throws.
PSend(t) ==
  /\ ppc[t] = "send"
  /\ \E sendOk \in BOOLEAN :
       IF sendOk
         THEN /\ ppc' = [ppc EXCEPT ![t] = "recv"]
              /\ UNCHANGED mutex_
         ELSE PLeaves(t, "threw_send")
  /\ UNCHANGED <<fdVars, lkVars, mtVars, jnVars, osVars,
                 gPrivHelper, connClosed, helper, helperCode,
                 nextXid_, requestXid, numRetries, msgXid, sent, spc, stopRes,
                 starts, mdVars>>

\* One turn of the receive loop: conn_.recvMsg(msg, fd) throws or delivers
\* a message, which is accepted, skipped as stale, or fatal.
PRecv(t) ==
  /\ ppc[t] = "recv"
  /\ \/ /\ PLeaves(t, "threw_recv")
        /\ UNCHANGED <<msgXid, numRetries>>
     \/ \E x \in ReplyXids :
          /\ msgXid' = [msgXid EXCEPT ![t] = x]
          /\ IF x = requestXid[t]
               THEN /\ PLeaves(t, "returned")
                    /\ UNCHANGED numRetries
             ELSE IF IsStaleReply(x, requestXid[t], numRetries[t])
               THEN /\ numRetries' = [numRetries EXCEPT ![t] = @ + 1]
                    /\ UNCHANGED <<ppc, mutex_>>
             ELSE /\ PLeaves(t, "threw_mismatch")
                  /\ UNCHANGED numRetries
  /\ UNCHANGED <<fdVars, lkVars, mtVars, jnVars, osVars,
                 gPrivHelper, connClosed, helper, helperCode,
                 nextXid_, requestXid, sent, spc, stopRes, starts, mdVars>>

\* stopPrivHelper up to the waitpid of cleanup(): it throws when there is
\* no helper; cleanup() returns ESRCH for a closed connection, and
\* otherwise closes the connection and goes on to wait.  No thread is
\* inside sendAndRecv of the object being destroyed.
StopPrivHelper ==
  /\ spc = "idle"
  /\ Calling = {}
  /\ IF ~gPrivHelper
       THEN /\ stopRes' = [res |-> "threw", val |-> 0, wasRunning |-> FALSE,
                           stopped |-> stopRes.stopped]
            /\ UNCHANGED <<gPrivHelper, connClosed, spc>>
     ELSE IF connClosed
       THEN /\ stopRes' = [res |-> "threw", val |-> 0, wasRunning |-> TRUE,
                           stopped |-> stopRes.stopped]
            /\ gPrivHelper' = FALSE
            /\ UNCHANGED <<connClosed, spc>>
     ELSE /\ connClosed' = TRUE
          /\ spc' = "waitpid"
          /\ UNCHANGED <<gPrivHelper, stopRes>>
  /\ UNCHANGED <<fdVars, lkVars, mtVars, jnVars, osVars,
                 helper, helperCode, nextXid_, mutex_, ppc,
                 requestXid, numRetries, msgXid, sent, starts, mdVars>>

\* waitpid(helperPid_, &status, 0) returns: with an error, or, once the
\* helper has ended, with its status.  Then gPrivHelper.reset() and the
\* result is returned, or thrown if it is an error.
StopWaited ==
  /\ spc = "waitpid"
  /\ \E waitOk \in BOOLEAN :
       IF waitOk
         THEN /\ helper \in {"exited", "signaled"}
              /\ stopRes' = [res |-> "returned",
                             val |-> CleanupValue(helper, helperCode),
                             wasRunning |-> TRUE,
                             stopped |-> stopRes.stopped + 1]
         ELSE stopRes' = [res |-> "threw", val |-> 0, wasRunning |-> TRUE,
                          stopped |-> stopRes.stopped]
  /\ gPrivHelper' = FALSE
  /\ spc' = "idle"
  /\ UNCHANGED <<fdVars, lkVars, mtVars, jnVars, osVars,
                 connClosed, helper, helperCode, nextXid_,
                 mutex_, ppc, requestXid, numRetries, msgXid, sent, starts, mdVars>>

\* The helper process ends: _exit(0) when run() returns, _exit(1) when
\* run() throws; or it is killed by a signal.
ExitCodes == {0, 1}
Signals == {9, 15}
HelperEnds ==
  /\ helper = "running"
  /\ \/ /\ helper' = "exited"
        /\ helperCode' \in ExitCodes
     \/ /\ helper' = "signaled"
        /\ helperCode' \in Signals
  /\ UNCHANGED <<fdVars, lkVars, mtVars, jnVars, osVars,
                 gPrivHelper, connClosed, nextXid_, mutex_,
                 ppc, requestXid, numRetries, msgXid, sent, spc, stopRes,
                 starts, mdVars>>

\* One FileData state, for the specification that does not run FileData.
InitFileDataIdle ==
  /\ InitFileData
  /\ hash = BlobHash
  /\ blobData = <<>>
  /\ mode = S_IFREG + 420

\* The state startPrivHelper leaves in the parent process.
InitPrivStarted ==
  /\ gPrivHelper = TRUE
  /\ connClosed = FALSE
  /\ helper = "running"
  /\ helperCode = 0
  /\ nextXid_ = 1
  /\ mutex_ = NoThread
  /\ ppc = [t \in Threads |-> "idle"]
  /\ requestXid = [t \in Threads |-> 0]
  /\ numRetries = [t \in Threads |-> 0]
  /\ msgXid = [t \in Threads |-> 0]
  /\ sent = <<>>
  /\ spc = "idle"
  /\ stopRes = [res |-> "none", val |-> 0, wasRunning |-> FALSE, stopped |-> 0]
  /\ starts = 1

InitPriv ==
  /\ InitFileDataIdle /\ InitLockIdle /\ InitPrivStarted
  /\ InitMountIdle /\ InitJournalIdle

NextPriv ==
  \E t \in Threads :
    \/ PCall(t)
    \/ PLock(t)
    \/ PSend(t)
    \/ PRecv(t)

SpecPriv == InitPriv /\ [][NextPriv]_vars

InitStop ==
  /\ InitFileDataIdle /\ InitLockIdle /\ InitPrivIdle
  /\ InitMountIdle /\ InitJournalIdle

NextStop ==
  \/ StartPrivHelper
  \/ StopPrivHelper
  \/ StopWaited
  \/ HelperEnds

SpecStop == InitStop /\ [][NextStop]_vars

(***************************************************************************)
(* SpecCheckout: checkout, resetParentCommit and getCurrentSnapshot of     *)
(* several threads on one mount.  EdenServiceHandler hands checkout and    *)
(* reset to EdenMount; the steps inside EdenMount follow the description   *)
(* of the checkout engine (reconcile, update SNAPSHOT, record one delta,   *)
(* all under the mount-wide lock).                                         *)
(***************************************************************************)

\* The journal's latest to_sequence; 0 for an empty journal.
LatestSequence(j) == IF j = <<>> THEN 0 ELSE j[Len(j)].toSequence

\* The to_sequence given to a new delta.
NextSequence_Reused(latest) == IF latest = 0 THEN 1 ELSE latest
NextSequence(latest) == latest + 1

\* A record that takes the hashes in the other order.
Record_HashesSwapped(j, fromHash, toHash, paths) ==
  Append(j, [fromSequence |-> LatestSequence(j),
             toSequence |-> NextSequence(LatestSequence(j)),
             fromHash |-> toHash, toHash |-> fromHash,
             changedPaths |-> paths])

\* record(from_hash, to_hash, changed_paths): append a delta.
Record(j, fromHash, toHash, paths) ==
  Append(j, [fromSequence |-> LatestSequence(j),
             toSequence |-> NextSequence(LatestSequence(j)),
             fromHash |-> fromHash, toHash |-> toHash,
             changedPaths |-> paths])

\* f is locally modified with respect to the commit old: its current
\* content SHA-1 differs from that of old's blob.
IsModified_IfMaterialized(old, entry, ovl) == ovl # NoFile
IsModified(old, entry, ovl) ==
  Sha1(FContents(entry, ovl)) # Sha1(BlobContents(CommitBlob(old)))

\* A modified f whose entry changes between old and target blocks the
\* checkout unless it is forced.
BlocksCheckout_Never(force) == FALSE
BlocksCheckout(force) == ~force

\* The reconciliation of f between the trees of old and target.
Reconcile(old, target, force, entry, ovl) ==
  LET oldBlob == CommitBlob(old)
      newBlob == CommitBlob(target)
      keep == [entry |-> entry, overlay |-> ovl, conflicts |-> {},
               blocked |-> FALSE, touched |-> {}]
  IN IF ~IsModified(old, entry, ovl)
       THEN [keep EXCEPT !.entry = newBlob, !.overlay = NoFile,
                         !.touched = IF newBlob # oldBlob \/ ovl # NoFile
                                       THEN {PathF} ELSE {}]
     ELSE IF newBlob = oldBlob THEN keep
     ELSE LET conflict == {[path |-> PathF,
                            type |-> "MODIFIED_BLOCKS_CHECKOUT"]}
          IN IF BlocksCheckout(force)
               THEN [keep EXCEPT !.conflicts = conflict, !.blocked = TRUE]
               ELSE [keep EXCEPT !.conflicts = conflict, !.entry = NoBlob,
                                 !.overlay = BlobContents(newBlob),
                                 !.touched = {PathF}]

MountOps ==
  [kind : {"checkout"}, target : Commits, force : BOOLEAN]
    \cup [kind : {"reset"}, target : Commits, force : {FALSE}]

\* checkOutRevision or resetParentCommit is called and waits for the
\* mount-wide lock.
MCall(t) ==
  /\ cpc[t] = "idle"
  /\ cpc' = [cpc EXCEPT ![t] = "lock"]
  /\ UNCHANGED <<fdVars, lkVars, phVars, osVars, jnVars, snapshotFile, tmpFile,
                 mountLock, cop, cres, fEntry, fOverlay, mdVars>>

\* The mount-wide lock is taken; the operation, with the arguments of the
\* call, starts from the snapshot and the file it finds.
MLock(t) ==
  /\ cpc[t] = "lock"
  /\ MountLockFree
  /\ mountLock' = t
  /\ \E o \in MountOps :
       /\ o.kind = "checkout" => Len(journal) < MaxCheckouts
       /\ cop' = [cop EXCEPT ![t] =
                    [NoOp EXCEPT !.kind = o.kind, !.target = o.target,
                                 !.force = o.force,
                                 !.from = getSnapshotID(snapshotFile),
                                 !.preEntry = fEntry,
                                 !.preOverlay = fOverlay,
                                 !.preDeltas = Len(journal)]]
  /\ cpc' = [cpc EXCEPT ![t] = "locked"]
  /\ UNCHANGED <<fdVars, lkVars, phVars, osVars, jnVars, snapshotFile, tmpFile,
                 cres, fEntry, fOverlay, mdVars>>

\* The operation ends, returning its conflicts or throwing, and the lock is
\* released.
MDone(t, res) ==
  /\ cres' = [res |-> res,
               conflicts |-> IF res = "returned" THEN cop[t].conflicts ELSE {},
               snapshot |-> NoCommit, concurrent |-> FALSE]
  /\ cop' = [cop EXCEPT ![t] = NoOp]
  /\ cpc' = [cpc EXCEPT ![t] = "idle"]
  /\ mountLock' = NoThread

\* Step 1 of a checkout: reconcile f.  A blocked checkout returns its
\* conflicts and changes nothing.
MReconcile(t) ==
  /\ cpc[t] = "locked"
  /\ cop[t].kind = "checkout"
  /\ LET r == Reconcile(cop[t].from, cop[t].target, cop[t].force,
                        fEntry, fOverlay)
     IN IF r.blocked
          THEN /\ cres' = [res |-> "returned",
                            conflicts |-> r.conflicts,
                            snapshot |-> NoCommit, concurrent |-> FALSE]
               /\ cop' = [cop EXCEPT ![t] = NoOp]
               /\ cpc' = [cpc EXCEPT ![t] = "idle"]
               /\ mountLock' = NoThread
               /\ UNCHANGED <<fEntry, fOverlay>>
          ELSE /\ fEntry' = r.entry
               /\ fOverlay' = r.overlay
               /\ cop' = [cop EXCEPT ![t] =
                            [@ EXCEPT !.conflicts = r.conflicts,
                                      !.touched = r.touched]]
               /\ cpc' = [cpc EXCEPT ![t] = "reconciled"]
               /\ UNCHANGED <<cres, mountLock>>
  /\ UNCHANGED <<fdVars, lkVars, phVars, osVars, jnVars, snapshotFile, tmpFile, mdVars>>

\* setSnapshotID, first half: writeFileAtomic writes the new text to a
\* temporary file next to SNAPSHOT; an IO error aborts the operation.
MWriteTemp(t) ==
  /\ \/ cpc[t] = "reconciled"
     \/ cpc[t] = "locked" /\ cop[t].kind = "reset"
  /\ \E ok \in BOOLEAN :
       IF ok
         THEN /\ tmpFile' = SnapshotText(cop[t].target)
              /\ snapshotFile' = SnapshotWhileWriting(snapshotFile)
              /\ cpc' = [cpc EXCEPT ![t] = "tempwritten"]
              /\ UNCHANGED <<cop, cres, mountLock>>
         ELSE /\ MDone(t, "threw")
              /\ UNCHANGED <<tmpFile, snapshotFile>>
  /\ UNCHANGED <<fdVars, lkVars, phVars, osVars, jnVars, fEntry, fOverlay, mdVars>>

\* setSnapshotID, second half: rename(temporary, SNAPSHOT).  A reset is
\* then complete; a checkout goes on to record its delta.
MRename(t) ==
  /\ cpc[t] = "tempwritten"
  /\ \E ok \in BOOLEAN :
       IF ~ok
         THEN /\ MDone(t, "threw")
              /\ tmpFile' = NoFile
              /\ UNCHANGED snapshotFile
       ELSE IF cop[t].kind = "reset"
         THEN /\ MDone(t, "returned")
              /\ snapshotFile' = tmpFile
              /\ tmpFile' = NoFile
       ELSE /\ snapshotFile' = tmpFile
            /\ tmpFile' = NoFile
            /\ cpc' = [cpc EXCEPT ![t] = "renamed"]
            /\ UNCHANGED <<cop, cres, mountLock>>
  /\ UNCHANGED <<fdVars, lkVars, phVars, osVars, jnVars, fEntry, fOverlay, mdVars>>

\* Step 3 of a checkout: one delta with the touched paths, from the old
\* commit to the target; the conflicts are returned.
MRecord(t) ==
  /\ cpc[t] = "renamed"
  /\ journal' = Record(journal, cop[t].from, cop[t].target, cop[t].touched)
  /\ MDone(t, "returned")
  /\ UNCHANGED <<fdVars, lkVars, phVars, osVars, snapshotFile, tmpFile, fEntry,
                 fOverlay, mountGeneration, jlock, jpc, subscribers, seen,
                 jres, step, mdVars>>

\* EdenServiceHandler::getCurrentSnapshot: reads the SNAPSHOT file.
GetCurrentSnapshot(t) ==
  /\ cpc[t] = "idle"
  /\ cres' = [NoRes EXCEPT !.res = "read",
                            !.snapshot = getSnapshotID(snapshotFile),
                            !.concurrent = (mountLock # NoThread)]
  /\ UNCHANGED <<fdVars, lkVars, phVars, osVars, jnVars, snapshotFile, tmpFile,
                 mountLock, cpc, cop, fEntry, fOverlay, mdVars>>

\* The user materializes f and writes new contents, no checkout running.
LocalWrite ==
  /\ mountLock = NoThread
  /\ \E c \in LocalContents :
       /\ fOverlay' = c
       /\ fEntry' = NoBlob
  /\ UNCHANGED <<fdVars, lkVars, phVars, osVars, jnVars, snapshotFile, tmpFile,
                 mountLock, cpc, cop, cres, mdVars>>

InitCheckout ==
  /\ InitFileDataIdle /\ InitLockIdle /\ InitPrivIdle
  /\ InitMountIdle /\ InitJournalIdle

NextCheckout ==
  \/ LocalWrite
  \/ \E t \in Threads :
       \/ MCall(t)
       \/ MLock(t)
       \/ MReconcile(t)
       \/ MWriteTemp(t)
       \/ MRename(t)
       \/ MRecord(t)
       \/ GetCurrentSnapshot(t)

SpecCheckout == InitCheckout /\ [][NextCheckout]_vars

(***************************************************************************)
(* SpecQuery: the journal queries of EdenServiceHandler on a journal that  *)
(* grows by records.                                                       *)
(***************************************************************************)
ERANGE == 34
Generations == {1, 2}
\* The changed paths a record carries.
RecordPaths == {{"a"}, {"b"}, {"a", "c"}}

\* A walk that also takes the delta the cursor is at.
RECURSIVE WalkDeltas_Inclusive(_, _, _, _)
WalkDeltas_Inclusive(j, i, since, out) ==
  IF i = 0 THEN out
  ELSE IF j[i].toSequence < since THEN out
  ELSE WalkDeltas_Inclusive(j, i - 1, since,
                            [out EXCEPT !.paths = @ \cup j[i].changedPaths,
                                        !.fromSeq = j[i].fromSequence,
                                        !.fromHash = j[i].fromHash])

\* The loop of getFilesChangedSince (lines 318-333) from delta i of the
\* journal back along the previous links; delta 1 has no previous delta.
RECURSIVE WalkDeltas(_, _, _, _)
WalkDeltas(j, i, since, out) ==
  IF i = 0 THEN out
  ELSE IF j[i].toSequence <= since THEN out
  ELSE WalkDeltas(j, i - 1, since,
                  [out EXCEPT !.paths = @ \cup j[i].changedPaths,
                              !.fromSeq = j[i].fromSequence,
                              !.fromHash = j[i].fromHash])

\* The test of the cursor's generation (line 302).
StaleCursor_SequenceOnly(cursor, gen) == cursor.sequenceNumber < 0
StaleCursor(cursor, gen) == cursor.mountGeneration # gen

\* A getFilesChangedSince that starts fromPosition at the cursor it was
\* given.
getFilesChangedSince_FromCursor(j, gen, cursor) ==
  LET asked == [NoAnswer EXCEPT !.op = "getFilesChangedSince",
                                !.cursor = cursor, !.len = Len(j)]
  IN IF StaleCursor(cursor, gen)
       THEN [asked EXCEPT !.res = "threw", !.error = ERANGE]
       ELSE LET latest == j[Len(j)]
                to == [asked EXCEPT !.res = "returned",
                                    !.toSeq = latest.toSequence,
                                    !.toHash = latest.toHash,
                                    !.toGen = gen,
                                    !.fromSeq = cursor.sequenceNumber,
                                    !.fromHash = latest.toHash,
                                    !.fromGen = cursor.mountGeneration]
            IN WalkDeltas(j, Len(j), cursor.sequenceNumber, to)

\* EdenServiceHandler::getFilesChangedSince on a journal with a latest
\* delta.
getFilesChangedSince(j, gen, cursor) ==
  LET asked == [NoAnswer EXCEPT !.op = "getFilesChangedSince",
                                !.cursor = cursor, !.len = Len(j)]
  IN IF StaleCursor(cursor, gen)
       THEN [asked EXCEPT !.res = "threw", !.error = ERANGE]
       ELSE LET latest == j[Len(j)]
                to == [asked EXCEPT !.res = "returned",
                                    !.toSeq = latest.toSequence,
                                    !.toHash = latest.toHash,
                                    !.toGen = gen,
                                    !.fromSeq = latest.toSequence,
                                    !.fromHash = latest.toHash,
                                    !.fromGen = gen]
            IN WalkDeltas(j, Len(j), cursor.sequenceNumber, to)

\* EdenServiceHandler::getCurrentJournalPosition on a journal with a latest
\* delta.
getCurrentJournalPosition(j, gen) ==
  [NoAnswer EXCEPT !.op = "getCurrentJournalPosition", !.len = Len(j),
                   !.res = "returned", !.toSeq = j[Len(j)].toSequence,
                   !.toHash = j[Len(j)].toHash, !.toGen = gen]

\* latest->toSequence with no latest delta: a null pointer is dereferenced.
\* The call crashes, or goes on with whatever it read.
NullLatest(asked) ==
  {[asked EXCEPT !.res = "crashed"]}
    \cup {[asked EXCEPT !.res = "returned", !.toSeq = n, !.fromSeq = n]
            : n \in {0, 1}}

Cursors == [mountGeneration : Generations, sequenceNumber : -1..(MaxDeltas + 1)]

GetFilesChangedSince ==
  /\ jlock = NoThread
  /\ \E cursor \in Cursors :
       IF journal = <<>> /\ ~StaleCursor(cursor, mountGeneration)
         THEN jres' \in NullLatest([NoAnswer EXCEPT
                                      !.op = "getFilesChangedSince",
                                      !.cursor = cursor,
                                      !.toGen = mountGeneration,
                                      !.fromGen = mountGeneration])
         ELSE jres' = getFilesChangedSince(journal, mountGeneration, cursor)
  /\ UNCHANGED <<fdVars, lkVars, phVars, osVars, mtVars, journal, mountGeneration,
                 jlock, jpc, subscribers, seen, step, mdVars>>

GetCurrentJournalPosition ==
  /\ jlock = NoThread
  /\ IF journal = <<>>
       THEN jres' \in NullLatest([NoAnswer EXCEPT
                                    !.op = "getCurrentJournalPosition"])
       ELSE jres' = getCurrentJournalPosition(journal, mountGeneration)
  /\ UNCHANGED <<fdVars, lkVars, phVars, osVars, mtVars, journal, mountGeneration,
                 jlock, jpc, subscribers, seen, step, mdVars>>

\* A mutation of the mount records its delta; the snapshot hash moves only
\* with a checkout.
JournalRecord ==
  /\ Len(journal) < MaxDeltas
  /\ jlock = NoThread
  /\ \E paths \in RecordPaths, toHash \in {1, 2} :
       LET fromHash == IF journal = <<>> THEN 1
                       ELSE journal[Len(journal)].toHash
       IN journal' = Record(journal, fromHash, toHash, paths)
  /\ UNCHANGED <<fdVars, lkVars, phVars, osVars, mtVars, mountGeneration, jlock,
                 jpc, subscribers, seen, jres, step, mdVars>>

\* A mounted client: the generation is the one this mount was given.
InitQuery ==
  /\ InitFileDataIdle /\ InitLockIdle /\ InitPrivIdle /\ InitMountIdle
  /\ journal = <<>>
  /\ mountGeneration \in Generations
  /\ jlock = NoThread
  /\ jpc = [t \in Threads |-> [at |-> "idle", seq |-> 0]]
  /\ subscribers = {}
  /\ seen = [c \in Callbacks |-> NotSubscribed]
  /\ jres = NoAnswer
  /\ step = NoStep

NextQuery ==
  \/ JournalRecord
  \/ GetFilesChangedSince
  \/ GetCurrentJournalPosition

SpecQuery == InitQuery /\ [][NextQuery]_vars

(***************************************************************************)
(* SpecJournal: records of several threads and subscriptions.  A record    *)
(* takes the journal lock, appends its delta, invokes the subscribed       *)
(* callbacks with it and releases the lock.                                *)
(***************************************************************************)

\* The journal lock can be taken.
JournalLockFree_NoLock == TRUE
JournalLockFree == jlock = NoThread

Recording == {t \in Threads : jpc[t].at # "idle"}

JCall(t) ==
  /\ jpc[t].at = "idle"
  /\ Len(journal) + Cardinality(Recording) < MaxDeltas
  /\ jpc' = [jpc EXCEPT ![t] = [at |-> "lock", seq |-> 0]]
  /\ UNCHANGED <<fdVars, lkVars, phVars, osVars, mtVars, journal, mountGeneration,
                 jlock, subscribers, seen, jres, step, mdVars>>

JLock(t) ==
  /\ jpc[t].at = "lock"
  /\ JournalLockFree
  /\ jlock' = t
  /\ jpc' = [jpc EXCEPT ![t] = [at |-> "locked", seq |-> 0]]
  /\ UNCHANGED <<fdVars, lkVars, phVars, osVars, mtVars, journal, mountGeneration,
                 subscribers, seen, jres, step, mdVars>>

\* The delta is appended and becomes the latest.
JAppend(t) ==
  /\ jpc[t].at = "locked"
  /\ \E paths \in RecordPaths :
       journal' = Record(journal, 1, 1, paths)
  /\ jpc' = [jpc EXCEPT ![t] = [at |-> "appended",
                                seq |-> LatestSequence(journal')]]
  /\ UNCHANGED <<fdVars, lkVars, phVars, osVars, mtVars, mountGeneration, jlock,
                 subscribers, seen, jres, step, mdVars>>

\* Every subscribed callback is invoked with the new delta; the lock is
\* released.
JNotify(t) ==
  /\ jpc[t].at = "appended"
  /\ seen' = [c \in Callbacks |->
                IF c \in subscribers
                  THEN [seen[c] EXCEPT !.got = Append(@, jpc[t].seq)]
                  ELSE seen[c]]
  /\ jlock' = NoThread
  /\ jpc' = [jpc EXCEPT ![t] = [at |-> "idle", seq |-> 0]]
  /\ UNCHANGED <<fdVars, lkVars, phVars, osVars, mtVars, journal, mountGeneration,
                 subscribers, jres, step, mdVars>>

\* EdenServiceHandler::async_tm_subscribe: reads the latest delta and
\* registers the callback with the journal.
Subscribe(c) ==
  /\ c \notin subscribers
  /\ JournalLockFree
  /\ subscribers' = subscribers \cup {c}
  /\ seen' = [seen EXCEPT ![c] = [since |-> LatestSequence(journal),
                                  got |-> <<>>]]
  /\ UNCHANGED <<fdVars, lkVars, phVars, osVars, mtVars, journal, mountGeneration,
                 jlock, jpc, jres, step, mdVars>>

\* The subscription ends.
Unsubscribe(c) ==
  /\ c \in subscribers
  /\ JournalLockFree
  /\ subscribers' = subscribers \ {c}
  /\ seen' = [seen EXCEPT ![c] = NotSubscribed]
  /\ UNCHANGED <<fdVars, lkVars, phVars, osVars, mtVars, journal, mountGeneration,
                 jlock, jpc, jres, step, mdVars>>

InitJournal ==
  /\ InitFileDataIdle /\ InitLockIdle /\ InitPrivIdle
  /\ InitMountIdle /\ InitJournalIdle

NextJournal ==
  \/ \E t \in Threads :
       \/ JCall(t)
       \/ JLock(t)
       \/ JAppend(t)
       \/ JNotify(t)
  \/ \E c \in Callbacks :
       \/ Subscribe(c)
       \/ Unsubscribe(c)

SpecJournal == InitJournal /\ [][NextJournal]_vars

(***************************************************************************)
(* SpecScenario: one unmaterialized file inode is opened for write         *)
(* (materializeForWrite without O_TRUNC), written once and closed (flush). *)
(* The mutation is recorded in the journal of the mount.                   *)
(***************************************************************************)

\* The blobs the inode can reference.
ScenarioBlobs == {[i \in 1..n |-> 1] : n \in 0..(MaxLen + 1)}

\* What Apply does to the FileData state, the journal left to the caller.
ApplyStep(op, r) ==
  /\ Becomes(r.st)
  /\ last' = Called(op, FALSE, r)
  /\ UNCHANGED <<lkVars, phVars, osVars, mtVars, mountGeneration, jlock, jpc,
                 subscribers, seen, jres, mdVars>>

Open ==
  /\ step.at = "start"
  /\ \E fail \in MaterializeFails, xattrOk \in BOOLEAN :
       LET r == materializeForWrite(Cur, FALSE, fail, xattrOk)
       IN /\ ApplyStep("materializeForWrite", r)
          /\ step' = [step EXCEPT !.at = IF r.res = "ok" THEN "opened"
                                         ELSE "failed"]
  /\ UNCHANGED journal

\* The write, and the delta the mount records for the path written.
WriteOnce ==
  /\ step.at = "opened"
  /\ \E data \in Contents, off \in 0..MaxLen, fail \in WriteFails :
       LET r == write(Cur, data, off, fail)
       IN /\ ApplyStep("write", r)
          /\ IF r.res = "ok"
               THEN /\ step' = [at |-> "written", data |-> data, off |-> off]
                    /\ journal' = Record(journal, 1, 1, {PathF})
               ELSE /\ step' = [step EXCEPT !.at = "failed"]
                    /\ UNCHANGED journal

\* The close; a failure to store the xattr is swallowed by storeSha1.
Close ==
  /\ step.at = "written"
  /\ \E fail \in Sha1Fails, xattrOk \in BOOLEAN :
       LET r == flush(Cur, fail, xattrOk)
       IN /\ ApplyStep("flush", r)
          /\ step' = [step EXCEPT !.at = IF r.res # "ok" THEN "failed"
                                         ELSE IF xattrOk THEN "closed"
                                         ELSE "closed_unstored"]
  /\ UNCHANGED journal

InitScenario ==
  /\ blobData \in ScenarioBlobs
  /\ mode = S_IFREG + 420
  /\ crashed = FALSE
  /\ blob_ \in BOOLEAN
  /\ sha1Valid_ = FALSE
  /\ last = [op |-> "FileData", trunc |-> FALSE, res |-> "ok", ret |-> NoRet,
             wasMat |-> FALSE, warned |-> FALSE, arg |-> <<>>]
  /\ hash = BlobHash
  /\ file_ = FALSE
  /\ overlay = NoFile
  /\ xattr = NoXattr
  /\ InitLockIdle /\ InitPrivIdle /\ InitMountIdle /\ InitJournalIdle

NextScenario ==
  \/ Open
  \/ WriteOnce
  \/ Close

SpecScenario == InitScenario /\ [][NextScenario]_vars

(***************************************************************************)
(* Claims about FileData, checked under SpecFileData.                      *)
(***************************************************************************)

\* The last call was materializeForWrite on an unmaterialized inode.
MaterializedFresh ==
  /\ last.op = "materializeForWrite"
  /\ ~last.wasMat

\* C1: in every reachable state a file inode has exactly one of a
\* source-store hash and an open overlay file: never both, never neither.
C1_ExactlyOneOfHashAndFile == (hash # NoHash) <=> ~file_

\* C2: a materializeForWrite on an unmaterialized inode that fails leaves
\* the inode unmaterialized as before: the hash still present and no overlay
\* file held.
C2_FailedMaterializeLeavesUnmaterialized ==
  (MaterializedFresh /\ last.res = "throw") => (hash = BlobHash /\ ~file_)

\* C3: for a materialized file, whenever sha1Valid_ is true the user.sha1
\* xattr of the overlay file is the SHA-1 of the file's current contents.
C3_ValidSha1IsSha1OfContents ==
  (file_ /\ sha1Valid_) => xattr = toString(Sha1(overlay))

\* What a successful materializeForWrite of an unmaterialized inode leaves:
\* materialized, hash cleared, blob dropped, the overlay file holding the
\* blob's contents (nothing with O_TRUNC).
MaterializedState ==
  /\ hash = NoHash
  /\ file_
  /\ ~blob_
  /\ overlay = (IF last.trunc THEN <<>> ELSE blobData)

\* The SHA-1 materializeForWrite stores: the object store's SHA-1 of the
\* blob, or the SHA-1 of no bytes with O_TRUNC.
MaterializedSha1 == IF last.trunc THEN EmptySha1 ELSE GetSha1ForBlob

\* C4 (as stated): a successful materializeForWrite of an unmaterialized
\* inode leaves it materialized with the hash cleared and the blob dropped,
\* the overlay file holding the blob's contents (nothing with O_TRUNC), and
\* the SHA-1 stored for the file being that of the blob (of no bytes with
\* O_TRUNC).
C4_MaterializeStoresSha1 ==
  (MaterializedFresh /\ last.res = "ok") =>
    (MaterializedState /\ xattr = toString(MaterializedSha1))

\* C4 (amended): the same, the stored SHA-1 being that value whenever
\* storing it succeeded, that is whenever sha1Valid_ is true afterwards; a
\* failed fsetxattr leaves sha1Valid_ false.
C4_MaterializeStoresSha1WhenValid ==
  (MaterializedFresh /\ last.res = "ok") =>
    (MaterializedState /\ (sha1Valid_ => xattr = toString(MaterializedSha1)))

\* C4 witness: a non-empty blob materialized without and with O_TRUNC is
\* told apart by the stored SHA-1.
C4_Witness ==
  /\ MaterializedFresh
  /\ last.res = "ok"
  /\ last.trunc
  /\ sha1Valid_
  /\ blobData # <<>>

(***************************************************************************)
(* Claims about the inode lock, checked under SpecLock.                    *)
(***************************************************************************)

\* The threads that hold the lock inside a call.
InCall == {t \in Threads : fpc[t] \in {"locked", "loading", "copying"}}

\* C5: at most one materialization and at most one blob load per inode run
\* at a time: the calls are serialized by the inode's lock, a blob load
\* starts only while the blob is neither loaded nor the inode materialized,
\* and over all calls at most one fetches the blob and at most one
\* materializes the inode, the others finding it loaded or materialized.
C5_OneMaterializationAtATime ==
  /\ Cardinality(InCall) <= 1
  /\ \A t \in InCall : lockOwner = t
  /\ \A t \in Threads : fpc[t] = "loading" => (~blob_ /\ ~file_ /\ hash # NoHash)
  /\ \A t \in Threads : fpc[t] = "copying" => (blob_ /\ ~file_ /\ hash # NoHash)
  /\ loads <= 1
  /\ creates <= 1

\* C5 witness: two calls run concurrently; one has loaded the blob and is
\* materializing the inode while the other waits for the lock.
C5_Witness ==
  \E t, u \in Threads :
    /\ fpc[t] = "copying"
    /\ fop[u].op = "materializeForWrite"
    /\ fpc[u] = "wlock"
    /\ loads = 1

(***************************************************************************)
(* Claims about sendAndRecv, checked under SpecPriv.                       *)
(***************************************************************************)

\* x is a late reply within the last 5 xids before request r, in integers.
InStaleWindow(x, r) == x < r /\ x >= r - StaleWindow

\* C6: while the client waits for the reply to request r, a reply x with
\* x < r and x >= r - 5 is discarded and the client receives again, up to 5
\* times for the request, and a reply r is accepted: so a call never fails
\* on a reply inside that window while fewer than 5 were discarded, and a
\* call that returns holds the reply r.
C6_StaleReplyDiscarded ==
  \A t \in Threads :
    /\ ppc[t] = "threw_mismatch" =>
         ~(InStaleWindow(msgXid[t], requestXid[t])
             /\ numRetries[t] < MaxStaleRetries)
    /\ ppc[t] = "returned" => msgXid[t] = requestXid[t]

\* C7: a reply whose xid differs from the request's xid r and that is not a
\* discardable stale reply is fatal: it is neither returned to the caller
\* nor skipped.  A call that returns holds the reply r; a call that goes on
\* receiving after a reply x has x inside the window (not greater than r,
\* not older than r - 5) and had discarded fewer than 5 replies before it.
C7_OtherMismatchIsFatal ==
  \A t \in Threads :
    /\ ppc[t] = "returned" => msgXid[t] = requestXid[t]
    /\ (ppc[t] = "recv" /\ numRetries[t] > 0) =>
         /\ InStaleWindow(msgXid[t], requestXid[t])
         /\ numRetries[t] <= MaxStaleRetries

\* C7 witness: five stale replies were discarded and the sixth is fatal.
C7_Witness ==
  \E t \in Threads :
    /\ ppc[t] = "threw_mismatch"
    /\ numRetries[t] = MaxStaleRetries
    /\ InStaleWindow(msgXid[t], requestXid[t])

\* C8: the k-th call to sendAndRecv on a client is given xid k, whether the
\* earlier calls returned or failed, and no two requests carry the same xid.
C8_XidsCountUpFromOne ==
  /\ \A k \in 1..Len(sent) : sent[k] = k
  /\ nextXid_ = Len(sent) + 1
  /\ \A t \in InSendAndRecv : requestXid[t] = sent[Len(sent)]

\* C8 witness: after calls that failed in the send, in the receive and on a
\* mismatched reply, the fourth call holds xid 4.
C8_Witness ==
  \E t, u \in Threads :
    /\ ppc[t] = "threw_mismatch"
    /\ requestXid[t] = 3
    /\ ppc[u] = "recv"
    /\ requestXid[u] = 4

\* C9: at most one request is in flight: a thread is given its xid, sends
\* and receives only while it holds the mutex, no other request is given an
\* xid before it has returned or thrown, and the reply a call returns is
\* the reply to its own request.
C9_OneRequestInFlight ==
  /\ Cardinality(InSendAndRecv) <= 1
  /\ \A t \in InSendAndRecv : mutex_ = t /\ requestXid[t] = nextXid_ - 1
  /\ mutex_ # NoThread => mutex_ \in InSendAndRecv
  /\ \A t \in Threads : ppc[t] = "returned" => msgXid[t] = requestXid[t]

\* C9 witness: one thread waits for the mutex while another, its request
\* sent, is receiving.
C9_Witness ==
  \E t, u \in Threads :
    /\ ppc[t] = "recv"
    /\ ppc[u] = "lock"

(***************************************************************************)
(* Claims about stopPrivHelper, checked under SpecStop.                    *)
(***************************************************************************)

\* C10: stopPrivHelper closes the client socket before it waits for the
\* helper, returns the helper's exit status, or the negated signal number
\* of a helper killed by a signal, and fails instead of waiting when no
\* helper is running (never started, or stopped before).
C10_CloseThenWaitThenStatus ==
  /\ spc = "waitpid" => (connClosed /\ gPrivHelper)
  /\ (stopRes.res = "returned" /\ ~gPrivHelper) =>
       /\ connClosed
       /\ helper = "exited" => stopRes.val = helperCode
       /\ helper = "signaled" => stopRes.val = 0 - helperCode
       /\ helper \in {"exited", "signaled"}
  /\ ~stopRes.wasRunning => stopRes.res \in {"none", "threw"}
  /\ ~gPrivHelper => spc = "idle"

\* C10 witness: a stop reported a helper killed by a signal, and a second
\* stop after it failed.
C10_Witness ==
  /\ stopRes.res = "threw"
  /\ ~stopRes.wasRunning
  /\ stopRes.stopped = 1
  /\ helper = "signaled"

(***************************************************************************)
(* Claims about checkout and the SNAPSHOT file, checked under SpecCheckout.*)
(***************************************************************************)

ModifiedConflict == {[path |-> PathF, type |-> "MODIFIED_BLOCKS_CHECKOUT"]}

\* The operation t holds the lock for is a checkout that found f
\* materialized with contents whose SHA-1 differs from that of the old
\* commit's blob, towards a commit whose entry for f differs from the old
\* commit's.
AwayFromModification(t) ==
  /\ cop[t].kind = "checkout"
  /\ cop[t].preOverlay # NoFile
  /\ Sha1(cop[t].preOverlay) # Sha1(BlobContents(CommitBlob(cop[t].from)))
  /\ CommitBlob(cop[t].target) # CommitBlob(cop[t].from)

\* Thread t's operation ends in this step.
Ends(t) == cpc[t] \notin {"idle", "lock"} /\ cpc'[t] = "idle"

\* C11: a checkout without force away from a local modification of f
\* returns the conflict {f, MODIFIED_BLOCKS_CHECKOUT}, leaves SNAPSHOT at
\* the old commit and leaves f's overlay file as it was.
C11_UnforcedCheckoutKeepsModification ==
  [][\A t \in Threads :
       (AwayFromModification(t) /\ ~cop[t].force /\ cpc[t] # cpc'[t]) =>
         /\ Ends(t)
         /\ cres'.res = "returned"
         /\ cres'.conflicts = ModifiedConflict
         /\ snapshotFile' = snapshotFile
         /\ getSnapshotID(snapshotFile') = cop[t].from
         /\ fOverlay' = cop[t].preOverlay
         /\ fEntry' = NoBlob
         /\ journal' = journal]_vars

\* C11 witness: a checkout returned the conflict, f still holds the local
\* contents, SNAPSHOT the first commit, and no delta was recorded.
C11_Witness ==
  /\ cres.res = "returned"
  /\ cres.conflicts = ModifiedConflict
  /\ fOverlay = <<0>>
  /\ getSnapshotID(snapshotFile) = 1
  /\ journal = <<>>
  /\ mountLock = NoThread

\* C12: a forced checkout away from a local modification of f gives f the
\* target commit's contents, writes SNAPSHOT only after the reconciliation
\* and then to the target commit, records exactly one delta, from the old
\* commit to the target, and still returns the conflict for f.
C12_ForcedCheckoutOverwrites ==
  [][\A t \in Threads :
       (AwayFromModification(t) /\ cop[t].force) =>
         /\ cpc[t] \in {"locked", "reconciled", "tempwritten"} =>
              /\ getSnapshotID(snapshotFile) = cop[t].from
              /\ Len(journal) = cop[t].preDeltas
         /\ (cpc[t] = "renamed" /\ Ends(t)) =>
              /\ cres'.res = "returned"
              /\ cres'.conflicts = ModifiedConflict
              /\ FContents(fEntry', fOverlay')
                   = BlobContents(CommitBlob(cop[t].target))
              /\ getSnapshotID(snapshotFile') = cop[t].target
              /\ Len(journal') = cop[t].preDeltas + 1
              /\ journal'[Len(journal')].fromHash = cop[t].from
              /\ journal'[Len(journal')].toHash = cop[t].target
              /\ PathF \in journal'[Len(journal')].changedPaths
              /\ SubSeq(journal', 1, Len(journal)) = journal]_vars

\* C12 witness: a forced checkout from commit 1 to commit 2 returned the
\* conflict; f holds blob 2's contents in its overlay file, SNAPSHOT names
\* commit 2 and the journal holds the one delta.
C12_Witness ==
  /\ cres.res = "returned"
  /\ cres.conflicts = ModifiedConflict
  /\ fOverlay = BlobContents(2)
  /\ getSnapshotID(snapshotFile) = 2
  /\ Len(journal) = 1
  /\ journal[1].fromHash = 1
  /\ journal[1].toHash = 2

\* C13: a checkout that fails on the snapshot file leaves SNAPSHOT at the
\* commit it held when the checkout started, and conflicts alone never
\* make a checkout fail.
C13_FailedCheckoutKeepsSnapshot ==
  [][\A t \in Threads :
       (cop[t].kind = "checkout" /\ Ends(t)) =>
         /\ cres'.res = "threw" =>
              /\ getSnapshotID(snapshotFile') = cop[t].from
              /\ cpc[t] \in {"reconciled", "tempwritten"}
              /\ journal' = journal
         /\ cpc[t] = "locked" =>
              /\ cres'.res = "returned"
              /\ cres'.conflicts # {}]_vars

\* C13 witness: a forced checkout had overwritten f with blob 2's contents
\* when it failed on the snapshot file; SNAPSHOT still names commit 1.
C13_Witness ==
  /\ cres.res = "threw"
  /\ fOverlay = BlobContents(2)
  /\ getSnapshotID(snapshotFile) = 1
  /\ journal = <<>>
  /\ mountLock = NoThread

\* The threads inside a SNAPSHOT transition.
InTransition ==
  {t \in Threads : cpc[t] \in {"locked", "reconciled", "tempwritten",
                               "renamed"}}

\* C14: the SNAPSHOT file always names a commit: while a checkout or reset
\* from A to B runs it names A or B, a concurrent getCurrentSnapshot
\* returns a commit, and at most one transition runs at a time, under the
\* mount-wide lock.
C14_SnapshotTransitionsAtomic ==
  /\ getSnapshotID(snapshotFile) \in Commits
  /\ cres.res = "read" => cres.snapshot \in Commits
  /\ Cardinality(InTransition) <= 1
  /\ \A t \in InTransition :
       /\ mountLock = t
       /\ getSnapshotID(snapshotFile) \in {cop[t].from, cop[t].target}
       /\ cpc[t] \in {"locked", "reconciled", "tempwritten"} =>
            getSnapshotID(snapshotFile) = cop[t].from
       /\ cpc[t] = "renamed" => getSnapshotID(snapshotFile) = cop[t].target

\* C14 witness: a read ran while a transition to another commit had written
\* its temporary file, and a second transition waits for the lock.
C14_Witness ==
  \E t, u \in Threads :
    /\ cpc[t] = "tempwritten"
    /\ cop[t].target # cop[t].from
    /\ cpc[u] = "lock"
    /\ cres.res = "read"
    /\ cres.concurrent
    /\ cres.snapshot = cop[t].from

(***************************************************************************)
(* Claims about the journal queries, checked under SpecQuery.              *)
(***************************************************************************)

\* C15: getFilesChangedSince with a cursor of another mount generation
\* fails with ERANGE, whatever the cursor's sequence number, and returns
\* no paths and no positions.
C15_StaleGenerationOutOfRange ==
  (jres.op = "getFilesChangedSince"
     /\ jres.cursor.mountGeneration # mountGeneration) =>
    /\ jres.res = "threw"
    /\ jres.error = ERANGE
    /\ jres.paths = {}
    /\ jres.toSeq = 0 /\ jres.toGen = 0 /\ jres.toHash = NoCommit
    /\ jres.fromSeq = 0 /\ jres.fromGen = 0 /\ jres.fromHash = NoCommit

\* C15 witness: a cursor of another generation at the latest sequence of a
\* journal of three deltas was refused.
C15_Witness ==
  /\ jres.op = "getFilesChangedSince"
  /\ jres.res = "threw"
  /\ jres.cursor.mountGeneration # mountGeneration
  /\ jres.len = 3
  /\ jres.cursor.sequenceNumber = 3

\* The deltas the journal held when the last query was asked.
Asked == SubSeq(journal, 1, jres.len)

\* The deltas newer than the cursor of the last query.
Newer ==
  {i \in 1..Len(Asked) : Asked[i].toSequence > jres.cursor.sequenceNumber}

\* C16: getFilesChangedSince with a cursor at sequence S of the current
\* generation returns the union of the changed paths of the deltas with
\* to_sequence > S, a toPosition at the latest delta's to_sequence and a
\* fromPosition at the from_sequence of the oldest delta with
\* to_sequence > S.
C16_ChangedSinceCursor ==
  (jres.op = "getFilesChangedSince"
     /\ jres.cursor.mountGeneration = mountGeneration
     /\ jres.len > 0) =>
    /\ jres.res = "returned"
    /\ jres.paths = UNION {Asked[i].changedPaths : i \in Newer}
    /\ jres.toSeq = Asked[Len(Asked)].toSequence
    /\ jres.toGen = mountGeneration
    /\ \A i \in Newer :
         (\A k \in Newer : Asked[i].toSequence <= Asked[k].toSequence) =>
           /\ jres.fromSeq = Asked[i].fromSequence
           /\ jres.fromHash = Asked[i].fromHash

\* C16 witness: after records of {a}, {b} and {a, c}, a cursor at 0 got
\* the paths {a, b, c}, from sequence 0 to sequence 3.
C16_Witness ==
  /\ jres.op = "getFilesChangedSince"
  /\ jres.res = "returned"
  /\ jres.len = 3
  /\ journal[1].changedPaths = {"a"}
  /\ journal[2].changedPaths = {"b"}
  /\ journal[3].changedPaths = {"a", "c"}
  /\ jres.cursor.sequenceNumber = 0
  /\ jres.paths = {"a", "b", "c"}
  /\ jres.fromSeq = 0
  /\ jres.toSeq = 3

\* C40: getFilesChangedSince with a cursor of the current generation at or
\* past the latest delta's to_sequence returns no path and a fromPosition
\* equal to the toPosition, both with the sequence, the snapshot hash and
\* the generation of the latest delta; and every result has
\* fromPosition.sequence <= toPosition.sequence and the mount's current
\* generation in both positions.
C40_CursorAtLatestSeesNothing ==
  (jres.op = "getFilesChangedSince" /\ jres.res = "returned") =>
    /\ jres.fromSeq <= jres.toSeq
    /\ jres.fromGen = mountGeneration
    /\ jres.toGen = mountGeneration
    /\ (jres.len > 0
          /\ jres.cursor.sequenceNumber >= Asked[Len(Asked)].toSequence) =>
         /\ jres.paths = {}
         /\ jres.toSeq = Asked[Len(Asked)].toSequence
         /\ jres.toHash = Asked[Len(Asked)].toHash
         /\ jres.fromSeq = jres.toSeq
         /\ jres.fromHash = jres.toHash

\* C40 witness: after two records a cursor past the latest sequence, at 3,
\* got no path and both positions at sequence 2.
C40_Witness ==
  /\ jres.op = "getFilesChangedSince"
  /\ jres.res = "returned"
  /\ jres.len = 2
  /\ jres.cursor.sequenceNumber = 3
  /\ jres.paths = {}
  /\ jres.fromSeq = 2
  /\ jres.toSeq = 2
  /\ jres.toHash = journal[2].toHash
  /\ jres.fromGen = mountGeneration

(***************************************************************************)
(* Claims about records and subscriptions, checked under SpecJournal.      *)
(***************************************************************************)

\* C17: the first delta has to_sequence 1, each later one the to_sequence
\* of the delta before it plus 1, every delta has
\* from_sequence + 1 = to_sequence, and each previous link leads to a
\* smaller to_sequence.
C17_SequencesStrictlyIncrease ==
  /\ \A i \in 1..Len(journal) :
       /\ journal[i].fromSequence + 1 = journal[i].toSequence
       /\ i = 1 => journal[i].toSequence = 1
       /\ i > 1 => journal[i].toSequence = journal[i - 1].toSequence + 1
  /\ \A i, k \in 1..Len(journal) :
       i < k => journal[i].toSequence < journal[k].toSequence

\* C17 witness: a thread has appended the second delta while another
\* record waits for the lock.
C17_Witness ==
  /\ Len(journal) = 2
  /\ \E t, u \in Threads :
       /\ t # u
       /\ jpc[t].at = "appended"
       /\ jpc[t].seq = 2
       /\ jpc[u].at = "lock"

\* The latest delta whose callbacks have been invoked.
LatestNotified ==
  IF \E t \in Threads : jpc[t].at = "appended"
    THEN LatestSequence(journal) - 1 ELSE LatestSequence(journal)

\* C18: a subscribed callback has been given every delta recorded since it
\* subscribed, each once and in the order of the sequence numbers, so all
\* callbacks see the same order.
C18_SubscribersSeeEveryDeltaInOrder ==
  \A c \in subscribers :
    /\ Len(seen[c].got) = LatestNotified - seen[c].since
    /\ \A i \in 1..Len(seen[c].got) : seen[c].got[i] = seen[c].since + i

\* C18 witness: one callback subscribed from the start was given deltas 1
\* and 2, another subscribed after delta 1 was given delta 2, and a third
\* record is waiting for the lock.
C18_Witness ==
  /\ subscribers = Callbacks
  /\ seen["s1"].got = <<1, 2>>
  /\ seen["s2"].got = <<2>>
  /\ \E t \in Threads : jpc[t].at = "lock"

(***************************************************************************)
(* Claims about write, checked under SpecFileData.                         *)
(***************************************************************************)

\* C20: a write on an inode without an open overlay file throws EINVAL and
\* changes nothing: the hash, the absence of the file handle, the overlay
\* file, its xattr and sha1Valid_ are as before.
C20_WriteUnmaterializedIsEINVAL ==
  [][(last'.op = "write" /\ ~file_) =>
       /\ last'.res = "throw"
       /\ last'.ret = <<EINVAL>>
       /\ hash' = hash
       /\ file_' = file_
       /\ blob_' = blob_
       /\ overlay' = overlay
       /\ xattr' = xattr
       /\ sha1Valid_' = sha1Valid_
       /\ mode' = mode]_vars

\* C20 witness: a write was refused with EINVAL on an inode that still has
\* its hash and no overlay file.
C20_Witness ==
  /\ last.op = "write"
  /\ last.res = "throw"
  /\ last.ret = <<EINVAL>>
  /\ ~last.wasMat
  /\ hash = BlobHash
  /\ ~file_
  /\ overlay = NoFile

(***************************************************************************)
(* Claims about the open / write / close scenario, checked under           *)
(* SpecScenario.                                                           *)
(***************************************************************************)

C21_WriteInvalidatesSha1 ==
  [][/\ (last'.op = "write" /\ file_) => ~sha1Valid_'
     /\ (/\ last.op = "write"
         /\ last.wasMat
         /\ last'.op \in {"getSha1", "flush", "fsync"}
         /\ last'.res = "ok")
          => /\ last'.op = "getSha1" => last'.ret = Sha1(overlay)
             /\ sha1Valid_' => xattr' = toString(Sha1(overlay))
             /\ ~sha1Valid_' => xattr' = xattr]_vars

\* C21 witness: a write changed a materialized file whose SHA-1 was stored:
\* the xattr still holds the digest of the old contents and sha1Valid_ is
\* false.
C21_Witness ==
  /\ last.op = "write"
  /\ last.wasMat
  /\ last.res = "ok"
  /\ ~sha1Valid_
  /\ xattr # NoXattr
  /\ xattr # toString(Sha1(overlay))

\* The FileData state is left as it is.
FileDataUnchanged ==
  /\ hash' = hash
  /\ file_' = file_
  /\ blob_' = blob_
  /\ sha1Valid_' = sha1Valid_
  /\ overlay' = overlay
  /\ xattr' = xattr
  /\ mode' = mode

\* C22: a getSha1 that returns, on a materialized file, returns the stored
\* xattr when sha1Valid_ is true and the xattr is not empty, changing
\* nothing; otherwise it returns the SHA-1 of the whole overlay file and
\* either stores it as the xattr and sets sha1Valid_, or (the store failed)
\* leaves both as they were.  On an unmaterialized file it returns the
\* SHA-1 the object store recorded for the blob, changing nothing.
C22_GetSha1 ==
  [][(last'.op = "getSha1" /\ last'.res = "ok") =>
       IF file_ /\ sha1Valid_ /\ xattr # NoXattr
         THEN last'.ret = fromString(xattr) /\ FileDataUnchanged
       ELSE IF file_
         THEN /\ last'.ret = Sha1(overlay)
              /\ \/ sha1Valid_' /\ xattr' = toString(Sha1(overlay))
                 \/ sha1Valid_' = sha1Valid_ /\ xattr' = xattr
              /\ hash' = hash /\ file_' /\ overlay' = overlay
       ELSE last'.ret = Sha1(blobData) /\ FileDataUnchanged]_vars

\* C22 witness: getSha1 returned the digest of a file whose contents are
\* neither the blob's nor empty, and the digest is stored and valid.
C22_Witness ==
  /\ last.op = "getSha1"
  /\ last.wasMat
  /\ last.res = "ok"
  /\ overlay \notin {blobData, <<>>}
  /\ last.ret = Sha1(overlay)
  /\ sha1Valid_
  /\ xattr = toString(Sha1(overlay))

\* C23: a call in which storing the xattr failed (storeSha1 logged its
\* warning) is a getSha1, flush, fsync or materializeForWrite that
\* completed all the same, with sha1Valid_ false afterwards: getSha1
\* returned the SHA-1 of the file's contents, and materializeForWrite left
\* the inode materialized, its hash cleared.
C23_FailedStoreIsNotFatal ==
  last.warned =>
    /\ last.op \in {"getSha1", "flush", "fsync", "materializeForWrite"}
    /\ last.res = "ok"
    /\ ~sha1Valid_
    /\ last.op = "getSha1" => last.ret = Sha1(overlay)
    /\ last.op = "materializeForWrite" => (file_ /\ hash = NoHash)

\* C23 witness: fsetxattr failed while an unmaterialized inode with a
\* non-empty blob was materialized: the call returned and the overlay file
\* holds the blob's contents without a stored SHA-1.
C23_Witness ==
  /\ last.warned
  /\ last.op = "materializeForWrite"
  /\ ~last.wasMat
  /\ last.res = "ok"
  /\ file_
  /\ hash = NoHash
  /\ overlay = blobData
  /\ blobData # <<>>
  /\ xattr = NoXattr
  /\ ~sha1Valid_

(***************************************************************************)
(* Claims about setAttr, checked under SpecSetAttr: in every reachable     *)
(* state with an overlay file, for every to_set and attr.                  *)
(***************************************************************************)

\* C24: a setAttr asked to change the owner (UID or GID set) returns only
\* if every id asked for is the file's own: the uid when UID is set, the
\* gid when GID is set.  If one differs the call fails, with EACCES unless
\* the fstat or the ftruncate before the test failed first.
C24_OwnerChangeDenied ==
  (file_ /\ ~crashed) =>
    \A toSet \in ToSets :
    \A attr \in Attrs(toSet), fail \in SetAttrFails(toSet) :
      LET r == setAttr(Cur, attr, toSet, fail)
          same == /\ "UID" \in toSet => attr.st_uid = FileUid
                  /\ "GID" \in toSet => attr.st_gid = FileGid
      IN ("UID" \in toSet \/ "GID" \in toSet) =>
           /\ r.res = "ok" => same
           /\ ~same => r.res = "throw"
           /\ (~same /\ fail \notin {"fstat", "ftruncate"})
                => r.ret = <<EACCES>>
           /\ (same /\ fail = "none") => r.res = "ok"

\* C24 witness: a setAttr was refused with EACCES.
C24_Witness ==
  /\ last.op = "setAttr"
  /\ last.res = "throw"
  /\ last.ret = <<EACCES>>
  /\ file_

\* C25: a setAttr with MODE set that returns leaves the mode with the
\* permission bits of the requested st_mode and the file-type bits it had,
\* and the stat it returns reports that mode; and no setAttr, whatever it
\* is asked and however it ends, changes the file-type bits.
C25_ModeKeepsFileType ==
  (file_ /\ ~crashed) =>
    \A toSet \in ToSets :
    \A attr \in Attrs(toSet), fail \in SetAttrFails(toSet) :
      LET r == setAttr(Cur, attr, toSet, fail)
      IN /\ r.st.mode \div PermMask = mode \div PermMask
         /\ ("MODE" \in toSet /\ r.res = "ok") =>
              /\ r.st.mode % PermMask = attr.st_mode % PermMask
              /\ r.ret = <<r.st.mode>>
         /\ ("MODE" \notin toSet /\ r.res = "ok") =>
              /\ r.st.mode = mode
              /\ r.ret = <<mode>>

\* C25 witness: a symlink inode was given the permission bits 04600 of a
\* st_mode carrying the type bits of a regular file, and is a symlink still.
C25_Witness ==
  /\ last.op = "setAttr"
  /\ last.res = "ok"
  /\ mode = S_IFLNK + 2048 + 384
  /\ last.ret = <<mode>>

(***************************************************************************)
(* Claims about read, checked under SpecFileData.                          *)
(***************************************************************************)

\* C26: read(size, off) on an unmaterialized inode whose blob is loaded
\* returns, for off up to the length of the blob, the bytes of the blob
\* from off up to off + size or the end of the blob, whichever comes first;
\* for off past the end it returns no bytes.  It never fails and changes
\* nothing.
C26_ReadUnmaterialized ==
  [][(last'.op = "read" /\ ~file_ /\ blob_) =>
       LET size == last'.arg[1]
           off == last'.arg[2]
           len == Len(blobData)
           ret == last'.ret
       IN /\ last'.res = "ok"
          /\ off <= len =>
               /\ Len(ret) = Min(off + size, len) - off
               /\ \A i \in 1..Len(ret) : ret[i] = blobData[off + i]
          /\ off >= len => ret = <<>>
          /\ FileDataUnchanged]_vars

\* C26 witness: a read of one byte past the end of a loaded, non-empty blob
\* returned no bytes.
C26_Witness ==
  /\ last.op = "read"
  /\ ~file_
  /\ blob_
  /\ blobData # <<>>
  /\ last.arg[1] = 1
  /\ last.arg[2] > Len(blobData)
  /\ last.res = "ok"
  /\ last.ret = <<>>

(***************************************************************************)
(* SpecSnapshot: ClientConfig::setSnapshotID followed by getSnapshotID, on *)
(* a SNAPSHOT file that starts with whitespace around the hash, beside     *)
(* getSnapshotID calls of the other thread.  One thread at a time sets the *)
(* snapshot.                                                               *)
(***************************************************************************)
\* The hashes set: the commits and one whose hex form has letters.
SnapshotHashes == Commits \cup {171}

\* Whitespace found around the hash in a SNAPSHOT file.
Pads == {<<>>, <<32>>, <<Newline>>, <<13, Newline>>, <<9, 32>>}

\* setSnapshotID, first half: folly::writeFileAtomic writes
\* id.toString() + "\n" to a temporary file; a failure throws.
SetSnapshotWrite(t) ==
  /\ \A u \in Threads : cpc[u] = "idle"
  /\ \E h \in SnapshotHashes, ok \in BOOLEAN :
       IF ok
         THEN /\ tmpFile' = SnapshotText(h)
              /\ snapshotFile' = SnapshotWhileWriting(snapshotFile)
              /\ cop' = [cop EXCEPT ![t] = [NoOp EXCEPT !.kind = "set",
                                                        !.target = h]]
              /\ cpc' = [cpc EXCEPT ![t] = "tempwritten"]
              /\ UNCHANGED cres
         ELSE /\ cres' = [NoRes EXCEPT !.res = "threw"]
              /\ UNCHANGED <<tmpFile, snapshotFile, cop, cpc>>
  /\ UNCHANGED <<fdVars, lkVars, phVars, osVars, jnVars, mountLock, fEntry,
                 fOverlay, mdVars>>

\* setSnapshotID, second half: rename(temporary, SNAPSHOT).
SetSnapshotRename(t) ==
  /\ cpc[t] = "tempwritten"
  /\ tmpFile' = NoFile
  /\ \E ok \in BOOLEAN :
       IF ok
         THEN /\ snapshotFile' = tmpFile
              /\ cpc' = [cpc EXCEPT ![t] = "setdone"]
              /\ UNCHANGED <<cop, cres>>
         ELSE /\ cres' = [NoRes EXCEPT !.res = "threw"]
              /\ cop' = [cop EXCEPT ![t] = NoOp]
              /\ cpc' = [cpc EXCEPT ![t] = "idle"]
              /\ UNCHANGED snapshotFile
  /\ UNCHANGED <<fdVars, lkVars, phVars, osVars, jnVars, mountLock, fEntry,
                 fOverlay, mdVars>>

\* The getSnapshotID that follows the setSnapshotID.
ReadBack(t) ==
  /\ cpc[t] = "setdone"
  /\ cres' = [NoRes EXCEPT !.res = "read",
                            !.snapshot = getSnapshotID(snapshotFile)]
  /\ cop' = [cop EXCEPT ![t] = NoOp]
  /\ cpc' = [cpc EXCEPT ![t] = "idle"]
  /\ UNCHANGED <<fdVars, lkVars, phVars, osVars, jnVars, snapshotFile, tmpFile,
                 mountLock, fEntry, fOverlay, mdVars>>

InitSnapshot ==
  /\ InitFileDataIdle /\ InitLockIdle /\ InitPrivIdle /\ InitJournalIdle
  /\ snapshotFile \in {pre \o toString(<<1>>) \o post : pre \in Pads,
                                                       post \in Pads}
  /\ tmpFile = NoFile
  /\ mountLock = NoThread
  /\ cpc = [t \in Threads |-> "idle"]
  /\ cop = [t \in Threads |-> NoOp]
  /\ cres = NoRes
  /\ fEntry = CommitBlob(1)
  /\ fOverlay = NoFile

NextSnapshot ==
  \/ \E t \in Threads : SetSnapshotWrite(t)
  \/ \E t \in Threads : SetSnapshotRename(t)
  \/ \E t \in Threads : ReadBack(t)
  \/ \E t \in Threads : GetCurrentSnapshot(t)

SpecSnapshot == InitSnapshot /\ [][NextSnapshot]_vars

(***************************************************************************)
(* SpecStore: the callers of ObjectStore::getBlob (ensureDataLoaded and    *)
(* materializeForWrite of FileData, debugGetScmBlob of the service) and    *)
(* the object store between them and the backing store.                    *)
(***************************************************************************)
\* An object store that never finds a fetch to join.
HasInflight_Never(h) == FALSE

\* A backing-store fetch of h is in flight.
HasInflight(h) == inflight[h] # {}

GetBlobCalls == {t \in Threads : ocall[t].at = "called"}

\* getObjectStore()->getBlob(hash) / store->getBlobFuture(id).get(): the
\* caller blocks until the store answers.
GetBlob(t) ==
  /\ ocall[t].at = "idle"
  /\ fetches + Cardinality(GetBlobCalls) < MaxFetches
  /\ \E h \in Hashes :
       ocall' = [ocall EXCEPT ![t] = [at |-> "called", hash |-> h,
                                      got |-> NoFetch]]
  /\ UNCHANGED <<fdVars, lkVars, phVars, mtVars, jnVars, inflight,
                 localStore, fetches, lop, token, mdVars>>

\* The store looks the hash up: it answers from the local store, or joins
\* the fetch in flight for the hash, or starts one.
StoreLookup(t) ==
  /\ ocall[t].at = "called"
  /\ LET h == ocall[t].hash IN
     IF h \in localStore
       THEN /\ ocall' = [ocall EXCEPT ![t].at = "returned",
                                      ![t].got = [fetch |-> 0, ok |-> TRUE]]
            /\ UNCHANGED <<inflight, fetches>>
     ELSE IF HasInflight(h)
       THEN /\ \E id \in inflight[h] :
                 ocall' = [ocall EXCEPT ![t].at = "waiting",
                                        ![t].got = [fetch |-> id, ok |-> FALSE]]
            /\ UNCHANGED <<inflight, fetches>>
     ELSE /\ fetches' = fetches + 1
          /\ inflight' = [inflight EXCEPT ![h] = @ \cup {fetches + 1}]
          /\ ocall' = [ocall EXCEPT ![t].at = "waiting",
                                    ![t].got = [fetch |-> fetches + 1,
                                                ok |-> FALSE]]
  /\ UNCHANGED <<fdVars, lkVars, phVars, mtVars, jnVars, localStore, lop,
                 token, mdVars>>

\* A backing-store fetch ends: on success the blob is written through to
\* the local store; every caller waiting on the fetch is given its result.
FetchCompletes(h, id, ok) ==
  /\ id \in inflight[h]
  /\ inflight' = [inflight EXCEPT ![h] = @ \ {id}]
  /\ localStore' = IF ok THEN localStore \cup {h} ELSE localStore
  /\ ocall' = [t \in Threads |->
                 IF ocall[t].at = "waiting" /\ ocall[t].got.fetch = id
                   THEN [ocall[t] EXCEPT !.at = "returned", !.got.ok = ok]
                   ELSE ocall[t]]
  /\ UNCHANGED <<fdVars, lkVars, phVars, mtVars, jnVars, fetches, lop,
                 token, mdVars>>

\* The caller has its blob, or its error.
BlobReturned(t) ==
  /\ ocall[t].at = "returned"
  /\ ocall' = [ocall EXCEPT ![t] = NoCall]
  /\ UNCHANGED <<fdVars, lkVars, phVars, mtVars, jnVars, inflight,
                 localStore, fetches, lop, token, mdVars>>

InitStore ==
  /\ InitFileDataIdle /\ InitLockIdle /\ InitPrivIdle
  /\ InitMountIdle /\ InitJournalIdle

NextStore ==
  \/ \E t \in Threads : GetBlob(t)
  \/ \E t \in Threads : StoreLookup(t)
  \/ \E h \in Hashes, id \in 1..MaxFetches, ok \in BOOLEAN :
       FetchCompletes(h, id, ok)
  \/ \E t \in Threads : BlobReturned(t)

SpecStore == InitStore /\ [][NextStore]_vars

(***************************************************************************)
(* Claims about the object store, checked under SpecStore.                 *)
(***************************************************************************)

\* The callers waiting for a fetch of h.
WaitingFor(h) == {t \in Threads : ocall[t].at = "waiting" /\ ocall[t].hash = h}

\* C27: at any time each hash has at most one backing-store fetch in
\* flight, every caller waiting for a hash waits on that one fetch, and
\* when the fetch ends every caller waiting for the hash is given the
\* result of that fetch.
C27_OneFetchPerHash ==
  [][/\ \A h \in Hashes : Cardinality(inflight'[h]) <= 1
     /\ \A t \in Threads :
          ocall'[t].at = "waiting" =>
            ocall'[t].got.fetch \in inflight'[ocall'[t].hash]
     /\ \A h \in Hashes : \A id \in inflight[h] \ inflight'[h] :
          \A t \in WaitingFor(h) :
            /\ ocall'[t].at = "returned"
            /\ ocall'[t].got.fetch = id
            /\ \A u \in WaitingFor(h) : ocall'[u].got = ocall'[t].got]_vars

\* C27 witness: both threads asked for the same hash while it was being
\* fetched, one fetch was started, and both were given its result.
C27_Witness ==
  /\ \A t \in Threads : ocall[t].at = "returned" /\ ocall[t].hash = "h1"
  /\ \A t \in Threads : ocall[t].got = [fetch |-> 1, ok |-> TRUE]
  /\ fetches = 1

(***************************************************************************)
(* SpecLong: the long-running service calls checkOutRevision, scmGetStatus *)
(* and glob.  The handler calls EdenMount::checkout(hash, force),          *)
(* Dirstate::getStatus(listIgnored) or GlobNode::evaluate(path, root) and  *)
(* blocks until the call is done; the call descends into the subtrees one  *)
(* after the other, holding the lock of the subtree it is in.              *)
(***************************************************************************)
LongKinds == {"checkout", "status", "glob"}

\* The handlers hand the operation no cancellation token: none is among
\* the arguments of checkout, getStatus and evaluate.
HandlerPassesToken == FALSE

\* The operation of t sees a triggered token.
Triggered(t) == HandlerPassesToken /\ token[t]

\* The handler is entered and starts the operation on a tree with n
\* subtrees.
CallLong(t) ==
  /\ lop[t].at = "idle"
  /\ \E kind \in LongKinds, n \in 0..MaxSubtrees :
       lop' = [lop EXCEPT ![t] = [kind |-> kind, at |-> "running",
                                  left |-> n, held |-> 0, res |-> "none"]]
  /\ token' = [token EXCEPT ![t] = FALSE]
  /\ UNCHANGED <<fdVars, lkVars, phVars, mtVars, jnVars, ocall, inflight,
                 localStore, fetches, mdVars>>

\* The caller of t's request asks for cancellation while it runs.
Cancel(t) ==
  /\ lop[t].at = "running"
  /\ ~token[t]
  /\ token' = [token EXCEPT ![t] = TRUE]
  /\ UNCHANGED <<fdVars, lkVars, phVars, mtVars, jnVars, ocall, inflight,
                 localStore, fetches, lop, mdVars>>

\* The operation enters the next subtree, taking its lock.
Descend(t) ==
  /\ lop[t].at = "running"
  /\ ~Triggered(t)
  /\ lop[t].held = 0
  /\ lop[t].left > 0
  /\ lop' = [lop EXCEPT ![t].held = 1]
  /\ UNCHANGED <<fdVars, lkVars, phVars, mtVars, jnVars, ocall, inflight,
                 localStore, fetches, token, mdVars>>

\* The operation is done with the subtree and releases its lock.
Leave(t) ==
  /\ lop[t].at = "running"
  /\ lop[t].held = 1
  /\ lop' = [lop EXCEPT ![t].held = 0, ![t].left = @ - 1]
  /\ UNCHANGED <<fdVars, lkVars, phVars, mtVars, jnVars, ocall, inflight,
                 localStore, fetches, token, mdVars>>

\* The operation ends and the handler's get() returns.
Complete(t) ==
  /\ lop[t].at = "running"
  /\ lop[t].held = 0
  /\ Triggered(t) \/ lop[t].left = 0
  /\ lop' = [lop EXCEPT ![t].at = "done",
                         ![t].res = IF Triggered(t) THEN "Cancelled" ELSE "ok"]
  /\ UNCHANGED <<fdVars, lkVars, phVars, mtVars, jnVars, ocall, inflight,
                 localStore, fetches, token, mdVars>>

\* The reply is sent.
Reply(t) ==
  /\ lop[t].at = "done"
  /\ lop' = [lop EXCEPT ![t] = NoLongOp]
  /\ token' = [token EXCEPT ![t] = FALSE]
  /\ UNCHANGED <<fdVars, lkVars, phVars, mtVars, jnVars, ocall, inflight,
                 localStore, fetches, mdVars>>

InitLong ==
  /\ InitFileDataIdle /\ InitLockIdle /\ InitPrivIdle
  /\ InitMountIdle /\ InitJournalIdle

NextLong ==
  \/ \E t \in Threads : CallLong(t)
  \/ \E t \in Threads : Cancel(t)
  \/ \E t \in Threads : Descend(t)
  \/ \E t \in Threads : Leave(t)
  \/ \E t \in Threads : Complete(t)
  \/ \E t \in Threads : Reply(t)

SpecLong == InitLong /\ [][NextLong]_vars

(***************************************************************************)
(* Claims about cancellation, checked under SpecLong.                      *)
(***************************************************************************)

\* C28: once the cancellation of a running checkout, status or glob was
\* asked for, the operation enters no further subtree, and when it ends it
\* holds no lock and its result is Cancelled.
C28_CancellationHonored ==
  [][\A t \in Threads :
       (token[t] /\ lop[t].at = "running") =>
         /\ lop'[t].held <= lop[t].held
         /\ lop'[t].at = "done" =>
              (lop'[t].held = 0 /\ lop'[t].res = "Cancelled")]_vars

(***************************************************************************)
(* Claims about getSHA1 of the service, checked under SpecFileData.        *)
(***************************************************************************)

\* C29: getSHA1ForPath for a path that names a symlink inode gives the
\* error EINVAL for the path, and so does the empty path; no SHA-1 is
\* computed or stored on the way: the inode, its overlay file and the xattr
\* are as before and storeSha1 was not reached.
C29_Sha1RefusesSymlink ==
  [][(/\ last'.op = "getSHA1ForPath"
      /\ last'.arg = <<>> \/ TypeBits(mode) = S_IFLNK) =>
       /\ last'.res = "throw"
       /\ last'.ret = <<EINVAL>>
       /\ ~last'.warned
       /\ FileDataUnchanged]_vars

\* C29 witness: the SHA-1 of a materialized symlink without a valid stored
\* SHA-1 was asked for by its path and refused with EINVAL.
C29_Witness ==
  /\ last.op = "getSHA1ForPath"
  /\ last.arg # <<>>
  /\ TypeBits(mode) = S_IFLNK
  /\ last.res = "throw"
  /\ last.ret = <<EINVAL>>
  /\ file_
  /\ ~sha1Valid_

(***************************************************************************)
(* Claims about the SNAPSHOT file, checked under SpecSnapshot.             *)
(***************************************************************************)

\* C30: the getSnapshotID that follows a setSnapshotID(h) returns h; the
\* setSnapshotID leaves the file alone until it replaces it, in one step,
\* by the hex form of h and a single newline; and a file holding the hex
\* form of a hash with whitespace before and after it reads as that hash.
C30_SnapshotRoundTrip ==
  [][/\ \A h \in SnapshotHashes : \A pre \in Pads, post \in Pads :
          getSnapshotID(pre \o toString(<<h>>) \o post) = h
     /\ \A t \in Threads :
          /\ (cpc[t] = "idle" /\ cpc'[t] = "tempwritten") =>
               snapshotFile' = snapshotFile
          /\ (cpc[t] = "tempwritten" /\ cpc'[t] = "setdone") =>
               snapshotFile' = toString(<<cop[t].target>>) \o <<Newline>>
          /\ (cpc[t] = "tempwritten" /\ cpc'[t] = "idle") =>
               snapshotFile' = snapshotFile
          /\ (cpc[t] = "setdone" /\ cpc'[t] = "idle") =>
               /\ cres'.res = "read"
               /\ cres'.snapshot = cop[t].target]_vars

\* C30 witness: the hash ab was set over a file that named commit 1 and was
\* read back.
C30_Witness ==
  /\ cres.res = "read"
  /\ cres.snapshot = 171
  /\ snapshotFile = <<97, 98, Newline>>
  /\ \A t \in Threads : cpc[t] = "idle"

(***************************************************************************)
(* SpecDirstate: DirstatePersistence::save and load                        *)
(* (eden/fs/inodes/DirstatePersistence.cpp).  The std::unordered_map of    *)
(* the caller is a sequence of <<path, directive>> pairs in its iteration  *)
(* order, which the program does not choose; the std::map of DirstateData  *)
(* is a sequence sorted by key.                                            *)
(***************************************************************************)
\* overlay::UserStatusDirective: Add and Remove.
Directives == {0, 1}

\* The paths "a", "b" and "a/b".
DirPaths == {<<97>>, <<98>>, <<97, 47, 98>>}

UserDirectives ==
  {d \in UNION {[1..n -> DirPaths \X Directives] : n \in 0..MaxEntries} :
     \A i, j \in 1..Len(d) : d[i][1] = d[j][1] => i = j}

AsMap(d) == {d[i] : i \in 1..Len(d)}

\* operator< of std::string: byte-wise, a proper prefix first.
StringLess(a, b) ==
  \E i \in 1..Len(b) :
    /\ \A j \in 1..(i - 1) : j <= Len(a) /\ a[j] = b[j]
    /\ (i > Len(a) \/ a[i] < b[i])

\* directives[key] = value on a std::map.
MapInsert_Append(m, e) == Append(m, e)
MapInsert(m, e) ==
  SelectSeq(m, LAMBDA x : StringLess(x[1], e[1]))
    \o <<e>> \o SelectSeq(m, LAMBDA x : StringLess(e[1], x[1]))

\* The loop of save over userDirectives.
RECURSIVE directivesOf(_)
directivesOf(d) ==
  IF d = <<>> THEN <<>>
  ELSE MapInsert(directivesOf(SubSeq(d, 1, Len(d) - 1)), d[Len(d)])

\* The compact protocol: a varint takes seven bits per byte, low bits
\* first; an i32 is zigzag-coded.
RECURSIVE Varint(_)
Varint(n) ==
  IF n < 128 THEN <<n>> ELSE <<128 + (n % 128)>> \o Varint(n \div 128)

ZigZag(n) == IF n >= 0 THEN 2 * n ELSE (-2 * n) - 1
UnZigZag(z) == IF z % 2 = 0 THEN z \div 2 ELSE -((z + 1) \div 2)

RECURSIVE WriteEntries(_)
WriteEntries(m) ==
  IF m = <<>> THEN <<>>
  ELSE Varint(Len(m[1][1])) \o m[1][1] \o Varint(ZigZag(m[1][2]))
         \o WriteEntries(Tail(m))

\* CompactSerializer::serialize of a DirstateData: the header of field 1
\* (a map), the size of the map, the types of its keys (binary) and values
\* (i32) unless it is empty, the entries in the order of the std::map and
\* the stop byte.
serialize(m) ==
  <<27>> \o (IF m = <<>> THEN <<0>>
             ELSE Varint(Len(m)) \o <<133>> \o WriteEntries(m)) \o <<0>>

RECURSIVE ReadVarint(_, _)
ReadVarint(b, pos) ==
  IF pos > Len(b) THEN [ok |-> FALSE, val |-> 0, next |-> pos]
  ELSE IF b[pos] < 128 THEN [ok |-> TRUE, val |-> b[pos], next |-> pos + 1]
  ELSE LET r == ReadVarint(b, pos + 1)
       IN  [ok |-> r.ok, val |-> (b[pos] - 128) + (128 * r.val),
            next |-> r.next]

RECURSIVE ReadEntries(_, _, _, _)
ReadEntries(b, pos, n, acc) ==
  IF n = 0 THEN [ok |-> TRUE, m |-> acc, next |-> pos]
  ELSE LET len == ReadVarint(b, pos)
           end == len.next + len.val
           val == ReadVarint(b, end)
       IN  IF ~len.ok \/ end - 1 > Len(b) \/ ~val.ok
           THEN [ok |-> FALSE, m |-> <<>>, next |-> pos]
           ELSE ReadEntries(b, val.next, n - 1,
                            MapInsert(acc, <<SubSeq(b, len.next, end - 1),
                                             UnZigZag(val.val)>>))

\* CompactSerializer::deserialize of a DirstateData.
deserialize(b) ==
  LET size == ReadVarint(b, 2)
      read == IF size.ok /\ size.val = 0
              THEN [ok |-> TRUE, m |-> <<>>, next |-> size.next]
              ELSE IF size.ok /\ size.next <= Len(b) /\ b[size.next] = 133
              THEN ReadEntries(b, size.next + 1, size.val, <<>>)
              ELSE [ok |-> FALSE, m |-> <<>>, next |-> 2]
  IN  IF Len(b) >= 1 /\ b[1] = 27 /\ read.ok /\ read.next = Len(b)
           /\ b[read.next] = 0
      THEN [ok |-> TRUE, m |-> read.m]
      ELSE [ok |-> FALSE, m |-> <<>>]

\* DirstatePersistence::save: what writeFileAtomic is given.
save(userDirectives) == serialize(directivesOf(userDirectives))

DirstateFails == {"none", "io"}

\* DirstatePersistence::load of a storage file: no file is an empty map,
\* a value that names no directive is an error.
load(file, fail) ==
  IF file = NoFile THEN [res |-> "ok", entries |-> <<>>]
  ELSE IF fail = "io" THEN [res |-> "system_error", entries |-> <<>>]
  ELSE LET data == deserialize(file)
       IN  IF ~data.ok THEN [res |-> "protocol_error", entries |-> <<>>]
           ELSE IF \E i \in 1..Len(data.m) : data.m[i][2] \notin Directives
           THEN [res |-> "runtime_error", entries |-> <<>>]
           ELSE [res |-> "ok", entries |-> data.m]

Save(d) ==
  \E fail \in DirstateFails :
    /\ IF fail = "none"
       THEN /\ storageFile' = save(d)
            /\ saved' = d
       ELSE UNCHANGED <<storageFile, saved>>
    /\ dop' = [op |-> "save", res |-> IF fail = "none" THEN "ok"
                                      ELSE "system_error",
               ret |-> <<>>, prev |-> storageFile]
    /\ UNCHANGED <<fdVars, lkVars, phVars, mtVars, jnVars, osVars, gtVars, giVars>>

Load ==
  \E fail \in DirstateFails :
    LET r == load(storageFile, fail)
    IN  /\ \E d \in UserDirectives :
             /\ AsMap(d) = AsMap(r.entries)
             /\ dop' = [op |-> "load", res |-> r.res, ret |-> d,
                        prev |-> storageFile]
        /\ UNCHANGED <<storageFile, saved, fdVars, lkVars, phVars, mtVars,
                       jnVars, osVars, gtVars, giVars>>

\* A storage file that names the directive 2, as no save writes it.
IllegalDirstate == <<27, 1, 133, 1, 97, 4, 0>>

InitDirstate ==
  /\ InitFileDataIdle /\ InitThreadsIdle /\ InitPrivIdle /\ InitMountIdle
  /\ InitJournalIdle /\ InitGitTreeIdle /\ InitIgnoreIdle
  /\ storageFile \in {NoFile, IllegalDirstate}
  /\ saved = <<>>
  /\ dop = NoDirstateCall

NextDirstate ==
  \/ \E d \in UserDirectives : Save(d)
  \/ Load

SpecDirstate == InitDirstate /\ [][NextDirstate]_vars

\* C31: a load that follows save(d) returns a map equal to d, and saving
\* the map a load returned from a saved file writes the bytes the file
\* already holds, whatever the iteration order of the map.
C31_DirstateRoundTrip ==
  [][/\ (dop'.op = "save" /\ dop'.res = "ok") =>
          /\ load(storageFile', "none").res = "ok"
          /\ AsMap(load(storageFile', "none").entries) = AsMap(saved')
     /\ (dop'.op = "load" /\ dop'.res = "ok" /\ storageFile = save(saved)) =>
          AsMap(dop'.ret) = AsMap(saved)
     /\ (/\ dop'.op = "save" /\ dop'.res = "ok"
         /\ dop.op = "load" /\ dop.res = "ok"
         /\ storageFile = save(saved)
         /\ saved' = dop.ret) =>
          storageFile' = storageFile]_vars

\* C31 witness: a map of two paths, with "b" before "a" in its iteration
\* order, was saved and the file holds the same bytes as before.
C31_Witness ==
  /\ dop.op = "save" /\ dop.res = "ok"
  /\ dop.prev = storageFile
  /\ Len(saved) = 2
  /\ saved[1][1] = <<98>>
  /\ saved[2][1] = <<97>>
  /\ storageFile = <<27, 2, 133, 1, 97, saved[2][2] * 2, 1, 98,
                     saved[1][2] * 2, 0>>

(***************************************************************************)
(* SpecGitTree: the git tree serializer and deserializeGitTree             *)
(* (eden/fs/model/git/GitTree.cpp), as the data model describes the wire   *)
(* format and eden/fs/model/git/test/GitTreeTest.cpp uses them.  A tree    *)
(* object is "tree <decimal length>" NUL and then, per entry,              *)
(* "<octal mode> <name>" NUL <hash>.                                       *)
(***************************************************************************)
RAW_SIZE == 20       \* bytes of a Hash

TreeHeader == <<116, 114, 101, 101, 32>>       \* "tree "

\* The file types and owner permissions a tree entry can have.
EntryKinds ==
  {<<"DIRECTORY", 7>>, <<"REGULAR_FILE", 6>>, <<"REGULAR_FILE", 7>>,
   <<"SYMLINK", 7>>}

\* The mode of an entry: 40000, 100644, 100755 or 120000.
GitMode(e) ==
  IF e.type = "DIRECTORY" THEN <<52, 48, 48, 48, 48>>
  ELSE IF e.type = "SYMLINK" THEN <<49, 50, 48, 48, 48, 48>>
  ELSE IF e.perms % 2 = 1 THEN <<49, 48, 48, 55, 53, 53>>
  ELSE <<49, 48, 48, 54, 52, 52>>

\* The tree ordering: by name, a directory as if its name ended in '/'.
TreeKey(e) == IF e.type = "DIRECTORY" THEN e.name \o <<47>> ELSE e.name
TreeLess_ByName(a, b) == StringLess(a.name, b.name)
TreeLess(a, b) == StringLess(TreeKey(a), TreeKey(b))

RECURSIVE sortTree(_)
sortTree(entries) ==
  IF entries = <<>> THEN <<>>
  ELSE LET e == entries[Len(entries)]
           rest == sortTree(SubSeq(entries, 1, Len(entries) - 1))
       IN  SelectSeq(rest, LAMBDA x : TreeLess(x, e)) \o <<e>>
             \o SelectSeq(rest, LAMBDA x : ~TreeLess(x, e))

RECURSIVE Decimal(_)
Decimal(n) ==
  IF n < 10 THEN <<48 + n>> ELSE Decimal(n \div 10) \o <<48 + (n % 10)>>

WriteTreeEntry(e) == GitMode(e) \o <<32>> \o e.name \o <<0>> \o e.hash

RECURSIVE WriteTree(_)
WriteTree(entries) ==
  IF entries = <<>> THEN <<>>
  ELSE WriteTreeEntry(entries[1]) \o WriteTree(Tail(entries))

\* The header of a tree object with the given contents.
WithHeader(body) == TreeHeader \o Decimal(Len(body)) \o <<0>> \o body

\* GitTreeSerializer::finalize after addEntry of each entry.
finalize(entries) == WithHeader(WriteTree(sortTree(entries)))

\* The first position from pos on that holds the byte c, or 0.
FindByte(b, pos, c) ==
  LET hits == {i \in pos..Len(b) : b[i] = c}
  IN  IF hits = {} THEN 0 ELSE CHOOSE i \in hits : \A j \in hits : i <= j

\* A number in the given base, most significant digit first.
IsNumber(str, base) ==
  /\ str # <<>>
  /\ \A i \in 1..Len(str) : str[i] >= 48 /\ str[i] < 48 + base

RECURSIVE NumberOf(_, _)
NumberOf(str, base) ==
  IF str = <<>> THEN 0
  ELSE (base * NumberOf(SubSeq(str, 1, Len(str) - 1), base))
         + (str[Len(str)] - 48)

\* The file type and owner permissions of a mode, <<>> if the mode is not
\* one of the four.
KindOfMode(m) ==
  IF m = 16384 THEN <<"DIRECTORY", 7>>
  ELSE IF m = 33188 THEN <<"REGULAR_FILE", 6>>
  ELSE IF m = 33261 THEN <<"REGULAR_FILE", 7>>
  ELSE IF m = 40960 THEN <<"SYMLINK", 7>>
  ELSE <<>>

NoTree == [ok |-> FALSE, entries |-> <<>>]

\* The entries from pos on: the parse ends where the data ends.
AtEnd_Anywhere(b, pos) == TRUE
AtEnd(b, pos) == pos > Len(b)

RECURSIVE ReadTree(_, _, _)
ReadTree(b, pos, acc) ==
  IF AtEnd(b, pos) THEN [ok |-> TRUE, entries |-> acc]
  ELSE LET sp == FindByte(b, pos, 32)
           nul == IF sp = 0 THEN 0 ELSE FindByte(b, sp + 1, 0)
           modeStr == SubSeq(b, pos, sp - 1)
           end == nul + RAW_SIZE
           kind == KindOfMode(NumberOf(modeStr, 8))
       IN  IF sp = 0 \/ nul = 0 \/ end > Len(b) THEN NoTree
           ELSE IF ~IsNumber(modeStr, 8) THEN NoTree
           ELSE IF kind = <<>> THEN NoTree
           ELSE ReadTree(b, end + 1,
                         Append(acc, [name |-> SubSeq(b, sp + 1, nul - 1),
                                      hash |-> SubSeq(b, nul + 1, end),
                                      type |-> kind[1],
                                      perms |-> kind[2]]))

\* deserializeGitTree: the header, a length that is the length of the
\* rest, and the entries.
deserializeGitTree(b) ==
  LET nul == FindByte(b, Len(TreeHeader) + 1, 0)
      sizeStr == SubSeq(b, Len(TreeHeader) + 1, nul - 1)
  IN  IF Len(b) < Len(TreeHeader) THEN NoTree
      ELSE IF SubSeq(b, 1, Len(TreeHeader)) # TreeHeader THEN NoTree
      ELSE IF nul = 0 THEN NoTree
      ELSE IF ~IsNumber(sizeStr, 10) THEN NoTree
      ELSE IF NumberOf(sizeStr, 10) # Len(b) - nul THEN NoTree
      ELSE ReadTree(b, nul + 1, <<>>)

\* The tree 013b7865a6da317bc8d82c7225eb93615f1b1eca of atom.git, as the
\* tests give it to the serializer and to deserializeGitTree.
AtomEntries ==
  <<
     [name |-> <<82, 69, 65, 68, 77, 69, 46, 109, 100>>,
      hash |-> <<198, 103, 136, 216, 121, 51, 134, 46, 33, 17, 168, 99, 4,
               183, 5, 221, 144, 187, 212, 39>>,
      type |-> "REGULAR_FILE", perms |-> 6],
     [name |-> <<97, 112, 109, 45, 114, 101, 115, 116, 45, 97, 112, 105, 46, 109, 100>>,
      hash |-> <<163, 200, 229, 194, 94, 85, 35, 50, 47, 14, 164, 144, 23,
               61, 189, 193, 216, 68, 174, 251>>,
      type |-> "REGULAR_FILE", perms |-> 6],
     [name |-> <<98, 117, 105, 108, 100, 45, 105, 110, 115, 116, 114, 117, 99, 116, 105, 111, 110, 115>>,
      hash |-> <<222, 11, 130, 135, 147, 145, 147, 237, 35, 152, 52, 153,
               27, 230, 91, 150, 203, 252, 69, 8>>,
      type |-> "DIRECTORY", perms |-> 7],
     [name |-> <<99, 111, 110, 116, 114, 105, 98, 117, 116, 105, 110, 103, 45, 116, 111, 45, 112, 97, 99, 107, 97, 103, 101, 115, 46, 109, 100>>,
      hash |-> <<69, 118, 99, 95, 243, 23, 150, 11, 226, 68, 177, 196, 173,
               254, 42, 110, 178, 235, 2, 77>>,
      type |-> "REGULAR_FILE", perms |-> 6],
     [name |-> <<99, 111, 110, 116, 114, 105, 98, 117, 116, 105, 110, 103, 46, 109, 100>>,
      hash |-> <<68, 252, 198, 52, 57, 55, 28, 140, 130, 157, 240, 14, 236,
               106, 237, 189, 196, 208, 228, 205>>,
      type |-> "SYMLINK", perms |-> 7]
  >>

AtomTreeObject ==
  <<116, 114, 101, 101, 32, 50, 50, 51, 0, 49, 48, 48, 54, 52, 52, 32, 82,
  69, 65, 68, 77, 69, 46, 109, 100, 0, 198, 103, 136, 216, 121, 51, 134, 46,
  33, 17, 168, 99, 4, 183, 5, 221, 144, 187, 212, 39, 49, 48, 48, 54, 52,
  52, 32, 97, 112, 109, 45, 114, 101, 115, 116, 45, 97, 112, 105, 46, 109,
  100, 0, 163, 200, 229, 194, 94, 85, 35, 50, 47, 14, 164, 144, 23, 61, 189,
  193, 216, 68, 174, 251, 52, 48, 48, 48, 48, 32, 98, 117, 105, 108, 100,
  45, 105, 110, 115, 116, 114, 117, 99, 116, 105, 111, 110, 115, 0, 222, 11,
  130, 135, 147, 145, 147, 237, 35, 152, 52, 153, 27, 230, 91, 150, 203,
  252, 69, 8, 49, 48, 48, 54, 52, 52, 32, 99, 111, 110, 116, 114, 105, 98,
  117, 116, 105, 110, 103, 45, 116, 111, 45, 112, 97, 99, 107, 97, 103, 101,
  115, 46, 109, 100, 0, 69, 118, 99, 95, 243, 23, 150, 11, 226, 68, 177,
  196, 173, 254, 42, 110, 178, 235, 2, 77, 49, 50, 48, 48, 48, 48, 32, 99,
  111, 110, 116, 114, 105, 98, 117, 116, 105, 110, 103, 46, 109, 100, 0, 68,
  252, 198, 52, 57, 55, 28, 140, 130, 157, 240, 14, 236, 106, 237, 189, 196,
  208, 228, 205>>

\* The inputs of testBadDeserialize, in its order.
BadTrees ==
  <<
    \* partial header 'tre'
    <<116, 114, 101>>,
    \* partial header 'tree '
    <<116, 114, 101, 101, 32>>,
    \* partial header 'tree 123'
    <<116, 114, 101, 101, 32, 49, 50, 51>>,
    \* length too long
    <<116, 114, 101, 101, 32, 49, 50, 51, 0>>,
    \* truncated after an entry mode
    <<116, 114, 101, 101, 32, 54, 0, 49, 48, 48, 54, 52, 52>>,
    \* no nul byte after the name
    <<116, 114, 101, 101, 32, 50, 50, 0, 49, 48, 48, 54, 52, 52, 32, 97,
    112, 109, 45, 114, 101, 115, 116, 45, 97, 112, 105, 46, 109, 100>>,
    \* truncated before the entry hash
    <<116, 114, 101, 101, 32, 50, 51, 0, 49, 48, 48, 54, 52, 52, 32, 97,
    112, 109, 45, 114, 101, 115, 116, 45, 97, 112, 105, 46, 109, 100, 0>>,
    \* non-octal digit in the mode
    <<116, 114, 101, 101, 32, 52, 51, 0, 49, 48, 48, 54, 57, 52, 32, 97,
    112, 109, 45, 114, 101, 115, 116, 45, 97, 112, 105, 46, 109, 100, 0,
    163, 200, 229, 194, 94, 85, 35, 50, 47, 14, 164, 144, 23, 61, 189, 193,
    216, 68, 174, 251>>,
    \* trailing nul byte
    <<116, 114, 101, 101, 32, 52, 52, 0, 49, 48, 48, 54, 52, 52, 32, 97,
    112, 109, 45, 114, 101, 115, 116, 45, 97, 112, 105, 46, 109, 100, 0,
    163, 200, 229, 194, 94, 85, 35, 50, 47, 14, 164, 144, 23, 61, 189, 193,
    216, 68, 174, 251, 0>>
  >>

\* The names "a", "a.b" and "b": as a directory, "a" sorts after "a.b".
GitNames == {<<97>>, <<97, 46, 98>>, <<98>>}

\* One hash per kind of entry; they hold NUL bytes and spaces too.
HashFor(kind) ==
  IF kind[1] = "DIRECTORY" THEN [i \in 1..RAW_SIZE |-> 0]
  ELSE IF kind[1] = "SYMLINK" THEN [i \in 1..RAW_SIZE |-> 32]
  ELSE [i \in 1..RAW_SIZE |-> 48 + kind[2]]

TreeEntries ==
  {[name |-> n, hash |-> HashFor(k), type |-> k[1], perms |-> k[2]] :
     n \in GitNames, k \in EntryKinds}

\* The entries given to addEntry, in the caller's order, names unique.
EntryLists ==
  {l \in UNION {[1..n -> TreeEntries] : n \in 0..MaxTreeEntries} :
     \A i, j \in 1..Len(l) : l[i].name = l[j].name => i = j}

NoGitCall == [op |-> "none", res |-> "none", entries |-> <<>>]

\* The contents of the tree object of gitEntries, the lengths of its
\* prefixes of whole entries and the positions of its mode digits.
TreeBody == WriteTree(sortTree(gitEntries))

Boundaries ==
  {Len(WriteTree(SubSeq(sortTree(gitEntries), 1, i))) :
     i \in 0..Len(gitEntries)}

ModeDigits ==
  UNION {{Len(WriteTree(SubSeq(sortTree(gitEntries), 1, i - 1))) + d :
            d \in 1..Len(GitMode(sortTree(gitEntries)[i]))} :
         i \in 1..Len(gitEntries)}

Finalize ==
  /\ gitRes.op = "addEntry"
  /\ gitData' = finalize(gitEntries)
  /\ gitRes' = [gitRes EXCEPT !.op = "finalize"]
  /\ UNCHANGED <<gitEntries, damage>>
  /\ UNCHANGED <<dsVars, giVars, fdVars, lkVars, phVars, mtVars, jnVars,
                 osVars>>

\* The tree object loses its end, inside the header or inside an entry,
\* with the length in the header as it was or as it is now.
Truncate ==
  /\ gitRes.op = "finalize" /\ damage = "none"
  /\ \/ \E k \in 0..(Len(gitData) - Len(TreeBody) - 1) :
          /\ gitData' = SubSeq(gitData, 1, k)
          /\ damage' = "header"
     \/ \E k \in 0..(Len(TreeBody) - 1) :
          /\ gitData' = SubSeq(gitData, 1, Len(gitData) - Len(TreeBody) + k)
          /\ damage' = "length"
     \/ \E k \in (0..(Len(TreeBody) - 1)) \ Boundaries :
          /\ gitData' = WithHeader(SubSeq(TreeBody, 1, k))
          /\ damage' = "entry"
  /\ UNCHANGED <<gitEntries, gitRes>>
  /\ UNCHANGED <<dsVars, giVars, fdVars, lkVars, phVars, mtVars, jnVars,
                 osVars>>

\* The header declares more bytes than follow it.
Lengthen ==
  /\ gitRes.op = "finalize" /\ damage = "none"
  /\ \E more \in {1, 100} :
       gitData' = TreeHeader \o Decimal(Len(TreeBody) + more) \o <<0>>
                    \o TreeBody
  /\ damage' = "length"
  /\ UNCHANGED <<gitEntries, gitRes>>
  /\ UNCHANGED <<dsVars, giVars, fdVars, lkVars, phVars, mtVars, jnVars,
                 osVars>>

\* A digit of a mode becomes 8 or 9.
BadDigit ==
  /\ gitRes.op = "finalize" /\ damage = "none"
  /\ \E p \in ModeDigits, c \in {56, 57} :
       gitData' = WithHeader([TreeBody EXCEPT ![p] = c])
  /\ damage' = "digit"
  /\ UNCHANGED <<gitEntries, gitRes>>
  /\ UNCHANGED <<dsVars, giVars, fdVars, lkVars, phVars, mtVars, jnVars,
                 osVars>>

\* A byte follows the last hash, counted in the header or not.
Trail ==
  /\ gitRes.op = "finalize" /\ damage = "none"
  /\ \E c \in {0, 32, 49}, counted \in BOOLEAN :
       gitData' = IF counted THEN WithHeader(TreeBody \o <<c>>)
                  ELSE gitData \o <<c>>
  /\ damage' = "trailing"
  /\ UNCHANGED <<gitEntries, gitRes>>
  /\ UNCHANGED <<dsVars, giVars, fdVars, lkVars, phVars, mtVars, jnVars,
                 osVars>>

Deserialize ==
  /\ gitRes.op \in {"finalize", "given"}
  /\ LET tree == deserializeGitTree(gitData)
     IN  gitRes' = [op |-> "deserialize",
                    res |-> IF tree.ok THEN "ok" ELSE "error",
                    entries |-> tree.entries]
  /\ UNCHANGED <<gitEntries, gitData, damage>>
  /\ UNCHANGED <<dsVars, giVars, fdVars, lkVars, phVars, mtVars, jnVars,
                 osVars>>

\* The entries a caller is about to serialize, or a tree object of the
\* tests about to be deserialized.
InitGitTree ==
  /\ InitFileDataIdle /\ InitThreadsIdle /\ InitPrivIdle /\ InitMountIdle
  /\ InitJournalIdle /\ InitDirstateIdle /\ InitIgnoreIdle
  /\ \/ /\ gitEntries \in EntryLists \cup {AtomEntries}
        /\ gitData = <<>>
        /\ damage = "none"
        /\ gitRes = [NoGitCall EXCEPT !.op = "addEntry"]
     \/ /\ gitEntries = <<>>
        /\ \/ /\ gitData \in {BadTrees[i] : i \in 1..Len(BadTrees)}
              /\ damage = "testBadDeserialize"
           \/ /\ gitData \in {AtomTreeObject, WithHeader(<<>>)}
              /\ damage = "none"
        /\ gitRes = [NoGitCall EXCEPT !.op = "given"]

NextGitTree ==
  \/ Finalize
  \/ Truncate
  \/ Lengthen
  \/ BadDigit
  \/ Trail
  \/ Deserialize

SpecGitTree == InitGitTree /\ [][NextGitTree]_vars

\* C32: deserializeGitTree returns no tree for a tree object that lost its
\* end (inside the header, after a mode, inside a name, before or inside a
\* hash), whose header declares more bytes than follow, whose mode holds
\* the digit 8 or 9, or that has a byte after its last hash; nor for any
\* input of testBadDeserialize.
C32_MalformedTreeRejected ==
  (gitRes.op = "deserialize" /\ damage # "none") => gitRes.res = "error"

\* C32 witness: a tree of two entries with a NUL after its last hash, which
\* the header counts, was refused.
C32_Witness ==
  /\ gitRes.op = "deserialize"
  /\ gitRes.res = "error"
  /\ damage = "trailing"
  /\ Len(gitEntries) = 2
  /\ gitData = WithHeader(TreeBody \o <<0>>)

\* C33: deserializing what the serializer wrote recovers the entries given
\* to it, each with its name, hash, file type and permissions, in the tree
\* order; serializing the entries of a deserialized tree gives its bytes
\* again; and the five entries of the atom tree serialize to the bytes
\* whose SHA-1 is that tree's id.
C33_TreeRoundTrip ==
  /\ Sha1(finalize(AtomEntries)) = Sha1(AtomTreeObject)
  /\ (gitRes.op = "deserialize" /\ damage = "none") =>
       /\ gitRes.res = "ok"
       /\ finalize(gitRes.entries) = gitData
       /\ gitData = AtomTreeObject => gitRes.entries = AtomEntries
       /\ gitEntries # <<>> =>
            /\ Len(gitRes.entries) = Len(gitEntries)
            /\ AsMap(gitRes.entries) = AsMap(gitEntries)
       /\ \A i \in 1..(Len(gitRes.entries) - 1) :
            StringLess(TreeKey(gitRes.entries[i]),
                       TreeKey(gitRes.entries[i + 1]))

\* C33 witness: the file "a.b" and the directory "a", given in the other
\* order, came back from the bytes the serializer wrote.
C33_Witness ==
  /\ gitRes.op = "deserialize"
  /\ gitRes.res = "ok"
  /\ damage = "none"
  /\ Len(gitEntries) = 2
  /\ gitEntries[1].name = <<97>> /\ gitEntries[1].type = "DIRECTORY"
  /\ gitEntries[2].name = <<97, 46, 98>>
  /\ gitRes.entries = <<gitEntries[2], gitEntries[1]>>

(***************************************************************************)
(* SpecIgnore: one GitIgnorePattern asked about one path, by match(path)   *)
(* and by match(path, basename) (eden/fs/model/git/GitIgnorePattern.h).    *)
(***************************************************************************)
\* The components "a" and "b.o", and the relative paths made of them.
Components == {<<97>>, <<98, 46, 111>>}

RECURSIVE JoinPath(_)
JoinPath(cs) ==
  IF Len(cs) = 1 THEN cs[1]
  ELSE JoinPath(SubSeq(cs, 1, Len(cs) - 1)) \o <<47>> \o cs[Len(cs)]

RelativePaths ==
  {JoinPath(cs) : cs \in UNION {[1..n -> Components] : n \in 1..MaxComponents}}

\* RelativePathPiece::basename: what follows the last '/'.
basename(p) ==
  LET slashes == {i \in 1..Len(p) : p[i] = 47}
      last_ == IF slashes = {} THEN 0
               ELSE CHOOSE i \in slashes : \A j \in slashes : j <= i
  IN  SubSeq(p, last_ + 1, Len(p))

\* GlobMatcher::match: '*' stands for any run of characters other than
\* '/', any other character for itself.
RECURSIVE GlobMatch(_, _)
GlobMatch(glob, text) ==
  IF glob = <<>> THEN text = <<>>
  ELSE IF glob[1] = 42
  THEN \/ GlobMatch(Tail(glob), text)
       \/ /\ text # <<>>
          /\ text[1] # 47
          /\ GlobMatch(glob, Tail(text))
  ELSE /\ text # <<>>
       /\ text[1] = glob[1]
       /\ GlobMatch(Tail(glob), Tail(text))

\* The globs "a", "*.o", "a/*" and "*/b.o".
Globs == {<<97>>, <<42, 46, 111>>, <<97, 47, 42>>, <<42, 47, 98, 46, 111>>}

\* The flags parseLine gives a glob: FLAG_BASENAME_ONLY exactly when the
\* pattern holds no '/'.
IgnoreFlags(glob) ==
  {fl \in SUBSET {"INCLUDE", "MUST_BE_DIR", "BASENAME_ONLY"} :
     ("BASENAME_ONLY" \in fl) <=> (\A i \in 1..Len(glob) : glob[i] # 47)}

IgnorePatterns ==
  UNION {{[flags |-> fl, glob |-> g] : fl \in IgnoreFlags(g)} : g \in Globs}

\* GitIgnorePattern::match(path, basename): the glob is matched against the
\* basename if the pattern is FLAG_BASENAME_ONLY and against the path
\* otherwise; a match includes if the pattern is FLAG_INCLUDE and excludes
\* otherwise.
match2(pat, p, base) ==
  LET isMatch == IF "BASENAME_ONLY" \in pat.flags
                 THEN GlobMatch(pat.glob, base)
                 ELSE GlobMatch(pat.glob, p)
  IN  IF ~isMatch THEN "NO_MATCH"
      ELSE IF "INCLUDE" \in pat.flags THEN "INCLUDE"
      ELSE "EXCLUDE"

\* GitIgnorePattern::match(path).
match_PathAsBasename(pat, p) == match2(pat, p, p)
match(pat, p) == match2(pat, p, basename(p))

MatchPath ==
  /\ ignRes.one = NoMatchCall
  /\ ignRes' = [ignRes EXCEPT !.one = match(ignPattern, ignPath)]
  /\ UNCHANGED <<ignPattern, ignPath>>
  /\ UNCHANGED <<dsVars, gtVars, fdVars, lkVars, phVars, mtVars, jnVars,
                 osVars>>

\* A caller that computed the basename itself.
MatchPathAndBasename ==
  /\ ignRes.two = NoMatchCall
  /\ \E base \in Components :
       /\ \/ ignPath = base
          \/ /\ Len(ignPath) > Len(base)
             /\ SubSeq(ignPath, Len(ignPath) - Len(base), Len(ignPath))
                  = <<47>> \o base
       /\ ignRes' = [ignRes EXCEPT !.two = match2(ignPattern, ignPath, base)]
  /\ UNCHANGED <<ignPattern, ignPath>>
  /\ UNCHANGED <<dsVars, gtVars, fdVars, lkVars, phVars, mtVars, jnVars,
                 osVars>>

InitIgnore ==
  /\ InitFileDataIdle /\ InitThreadsIdle /\ InitPrivIdle /\ InitMountIdle
  /\ InitJournalIdle /\ InitDirstateIdle /\ InitGitTreeIdle
  /\ ignPattern \in IgnorePatterns
  /\ ignPath \in RelativePaths
  /\ ignRes = [one |-> NoMatchCall, two |-> NoMatchCall]

NextIgnore ==
  \/ MatchPath
  \/ MatchPathAndBasename

SpecIgnore == InitIgnore /\ [][NextIgnore]_vars

\* C34: match(path) of a pattern returns what match(path, basename) returns
\* when the basename given is the last component of the path.
C34_MatchAgrees ==
  /\ \A pat \in IgnorePatterns, p \in RelativePaths :
       match(pat, p) = match2(pat, p, basename(p))
  /\ (ignRes.one # NoMatchCall /\ ignRes.two # NoMatchCall) =>
       ignRes.one = ignRes.two

\* C34 witness: the basename-only pattern "*.o" excluded "a/b.o" either
\* way.
C34_Witness ==
  /\ ignPattern = [flags |-> {"BASENAME_ONLY"}, glob |-> <<42, 46, 111>>]
  /\ ignPath = <<97, 47, 98, 46, 111>>
  /\ ignRes = [one |-> "EXCLUDE", two |-> "EXCLUDE"]

(***************************************************************************)
(* Claims about the reconciliation of a checkout, checked under            *)
(* SpecCheckout.                                                           *)
(***************************************************************************)

\* C35: the reconciliation step of a checkout replaces an unmaterialized f
\* whose hash is the old tree's entry, and a materialized f whose content
\* SHA-1 is that of the old tree's blob, by the new tree's entry, deletes
\* the overlay file and reports no conflict; it leaves a modified f as it
\* is, with no conflict, when the new tree's entry is the old tree's.
C35_ReconcileWithoutConflict ==
  [][\A t \in Threads :
       (cpc[t] = "locked" /\ cop[t].kind = "checkout" /\ cpc'[t] # "locked") =>
         LET oldBlob == CommitBlob(cop[t].from)
             newBlob == CommitBlob(cop[t].target)
             same == \/ fOverlay = NoFile /\ fEntry = oldBlob
                     \/ /\ fOverlay # NoFile
                        /\ Sha1(fOverlay) = Sha1(BlobContents(oldBlob))
         IN  /\ same =>
                  /\ cpc'[t] = "reconciled"
                  /\ fEntry' = newBlob
                  /\ fOverlay' = NoFile
                  /\ cop'[t].conflicts = {}
             /\ (~same /\ fOverlay # NoFile /\ newBlob = oldBlob) =>
                  /\ cpc'[t] = "reconciled"
                  /\ fEntry' = fEntry
                  /\ fOverlay' = fOverlay
                  /\ cop'[t].conflicts = {}]_vars

\* C35 witness: a checkout from commit 1 to commit 2 found f materialized
\* with the contents of commit 1's blob, and left it unmaterialized with
\* commit 2's blob and no conflict.
C35_Witness ==
  \E t \in Threads :
    /\ cpc[t] = "reconciled"
    /\ cop[t].from = 1 /\ cop[t].target = 2
    /\ cop[t].preEntry = NoBlob
    /\ cop[t].preOverlay = BlobContents(CommitBlob(1))
    /\ fEntry = CommitBlob(2)
    /\ fOverlay = NoFile
    /\ cop[t].conflicts = {}

(***************************************************************************)
(* Claims about the first requests of a privileged-helper client, checked  *)
(* under SpecPriv.                                                         *)
(***************************************************************************)

\* C36: while a request with xid r in 2..5 waits for its reply and has
\* discarded fewer than 5 replies, a reply x with 1 <= x < r is discarded
\* and the client receives again, as for later requests: the test of the
\* code gives what the window gives in integers.
C36_EarlyStaleReplyDiscarded ==
  [][\A t \in Threads :
       (/\ ppc[t] = "recv"
        /\ requestXid[t] \in 2..StaleWindow
        /\ numRetries[t] < MaxStaleRetries
        /\ msgXid'[t] # msgXid[t] \/ ppc'[t] # "recv"
                                  \/ numRetries'[t] # numRetries[t]
        /\ msgXid'[t] >= 1
        /\ msgXid'[t] < requestXid[t]) =>
         /\ IsStaleReply(msgXid'[t], requestXid[t], numRetries[t])
         /\ ppc'[t] = "recv"
         /\ numRetries'[t] = numRetries[t] + 1]_vars

(***************************************************************************)
(* Claims about failing and repeated FileData calls.                       *)
(***************************************************************************)

\* C37: a setAttr that is refused with EACCES leaves the overlay file's
\* contents (and so its size) and the inode's mode as they were.
C37_FailedSetAttrChangesNothing ==
  [][(/\ last'.op = "setAttr"
      /\ last'.res = "throw"
      /\ last'.ret = <<EACCES>>) =>
       /\ overlay' = overlay
       /\ mode' = mode]_vars

\* A materializeForWrite has just returned on an inode that was
\* materialized already.
Rematerialized ==
  /\ last'.op = "materializeForWrite"
  /\ last'.wasMat
  /\ last'.res = "ok"

\* What getSha1 can return in the state after the step.
Sha1Afterwards ==
  {getSha1(Cur', fail, xattrOk).ret :
     fail \in {f \in Sha1Fails : getSha1(Cur', f, TRUE).res = "ok"},
     xattrOk \in BOOLEAN}

\* C38 (as stated): materializeForWrite on a materialized inode changes
\* nothing without O_TRUNC; with O_TRUNC it empties the overlay file and
\* stores the SHA-1 of no bytes, and getSha1 returns that SHA-1 afterwards.
C38_RematerializeStoresEmptySha1 ==
  [][Rematerialized =>
       IF last'.trunc
       THEN /\ overlay' = <<>>
            /\ hash' = NoHash /\ file_'
            /\ xattr' = toString(EmptySha1)
            /\ sha1Valid_'
            /\ Sha1Afterwards = {EmptySha1}
       ELSE FileDataUnchanged /\ hash = NoHash]_vars

\* C38 (amended): the same, the SHA-1 of no bytes being stored whenever
\* storing it succeeded, that is whenever sha1Valid_ is true afterwards; a
\* failed fsetxattr leaves the xattr as it was and sha1Valid_ false, and
\* getSha1 returns the SHA-1 of no bytes afterwards in either case.
C38_RematerializeStoresWhenValid ==
  [][Rematerialized =>
       IF last'.trunc
       THEN /\ overlay' = <<>>
            /\ hash' = NoHash /\ file_'
            /\ sha1Valid_' => xattr' = toString(EmptySha1)
            /\ sha1Valid_' = ~last'.warned
            /\ ~sha1Valid_' => xattr' = xattr
            /\ Sha1Afterwards = {EmptySha1}
       ELSE FileDataUnchanged /\ hash = NoHash]_vars

\* C38 witness: a materialized file that held a byte was opened again with
\* O_TRUNC while the xattr could not be written: it is empty, its old xattr
\* is still there and sha1Valid_ is false.
C38_Witness ==
  /\ last.op = "materializeForWrite"
  /\ last.wasMat /\ last.trunc
  /\ last.res = "ok"
  /\ last.warned
  /\ overlay = <<>>
  /\ xattr = toString(Sha1(<<1>>))
  /\ ~sha1Valid_

(***************************************************************************)
(* SpecOneWay: every FileData call, reads of the whole file among them, on *)
(* a regular file that starts unmaterialized.                              *)
(***************************************************************************)
InitOneWay ==
  /\ Init
  /\ hash = BlobHash
  /\ mode = S_IFREG + 420

NextOneWay ==
  \/ MaterializeForWrite
  \/ EnsureDataLoaded
  \/ ReadAll
  \/ Write
  \/ SetAttr
  \/ Flush
  \/ Fsync
  \/ GetSha1

SpecOneWay == InitOneWay /\ [][NextOneWay]_vars

\* C39: once the inode is materialized (no hash, the overlay file open), no
\* FileData call gives it a hash again, drops the overlay handle or aborts,
\* and a read that returns returns the bytes of the overlay file.
C39_MaterializationIsOneWay ==
  [][(hash = NoHash /\ file_) =>
       /\ hash' = NoHash
       /\ file_'
       /\ ~crashed'
       /\ (last'.op = "read" /\ last'.res = "ok") =>
            last'.ret = Pread(overlay, last'.arg[1], last'.arg[2])]_vars

\* C39 witness: the blob <<1>> was materialized, the file was overwritten
\* with <<0>>, and a read of the file returned the 0 of the overlay file.
C39_Witness ==
  /\ blobData = <<1>>
  /\ hash = NoHash /\ file_
  /\ overlay = <<0>>
  /\ last.op = "read" /\ last.res = "ok"
  /\ last.arg = <<MaxLen + 1, 0>>
  /\ last.ret = <<0>>

=============================================================================
